---- MODULE Spec2Model ----
(***************************************************************************)
(* Model of the Mechanic-Shop-System scheduling engine                     *)
(* (SchedulingService: slot generation, conflict detection, duration       *)
(* computation, appointment and settings updates), of the technician       *)
(* roster, the check-ins and the work orders kept by BrowserDatabaseService,*)
(* and of the components that use them in the tabs of a browser (the       *)
(* technician dashboard and the check-in form).                            *)
(*                                                                         *)
(* Time.  A Date is modelled by its number of minutes since local midnight *)
(* of day 0, a Sunday: day d, minute m of the day is d * 1440 + m.         *)
(* "HH:MM" strings are sequences of four digits <<h1, h2, m1, m2>>; the    *)
(* absent (undefined) string is the empty sequence.                        *)
(***************************************************************************)
EXTENDS Integers, Sequences, FiniteSets, TLC

VARIABLES
    storage,    \* localStorage['shop_scheduling']: NoData or the saved snapshot
    database,   \* localStorage['shop_database']:   NoData or the saved snapshot
    nextId,     \* number of ids handed out so far by uuidv4()
    ret,        \* the last call: [op, args, value]
    hist,       \* the last getAvailableTimeSlots call since the last scheduling mutation
    clock,      \* what Date.now() returns
    tabs,       \* per browser tab: the call in progress and the component state
    log         \* the reads and writes of createAppointment calls, in order

vars == <<storage, database, nextId, ret, hist, clock, tabs, log>>

----------------------------------------------------------------------------
(* Bounds of the model *)

MaxAppointments == 2
MaxCreatedTechs == 1

----------------------------------------------------------------------------
(* Values *)

\* An optional value is a sequence of at most one element: Null, or <<v>>.
Null == <<>>
NoData == <<>>
Undefined == <<>>

MinutesPerDay == 24 * 60

\* new Date(y, m, d, hh, mm) of day d
Ts(d, m) == d * MinutesPerDay + m

\* the "HH:MM" string of h hours, m minutes
HHMM(h, m) == <<h \div 10, h % 10, m \div 10, m % 10>>

\* Date.prototype.getDay()
GetDay(date) == (date \div MinutesPerDay) % 7

\* setHours(h, m, 0, 0) on a copy of date
SetHours(date, h, m) == (date \div MinutesPerDay) * MinutesPerDay + h * 60 + m

\* time.split(':').map(Number)
SplitTime(s) == <<s[1] * 10 + s[2], s[3] * 10 + s[4]>>

\* date.toTimeString().slice(0, 5)
ToTimeString(date) == HHMM((date % MinutesPerDay) \div 60, (date % MinutesPerDay) % 60)

\* JavaScript's < on strings: lexicographic by code unit, a proper prefix is smaller
RECURSIVE StrLess(_, _)
StrLess(a, b) ==
    IF b = <<>> THEN FALSE
    ELSE IF a = <<>> THEN TRUE
    ELSE IF Head(a) # Head(b) THEN Head(a) < Head(b)
    ELSE StrLess(Tail(a), Tail(b))

\* truthiness of an optional string
TruthyStr(s) == s # Undefined

\* an optional number is <<>> (undefined) or <<n>>; truthiness of it
TruthyNum(n) == n # Undefined /\ n[1] # 0

----------------------------------------------------------------------------
(* Seed data *)

DefaultDay(day, open, close) ==
    [ day_of_week |-> day,
      open_time   |-> open,
      close_time  |-> close,
      lunch_start |-> HHMM(12, 0),
      lunch_end   |-> HHMM(13, 0),
      is_closed   |-> FALSE ]

getDefaultShopSchedule ==
    << DefaultDay(1, HHMM(8, 0), HHMM(17, 0)),
       DefaultDay(2, HHMM(8, 0), HHMM(17, 0)),
       DefaultDay(3, HHMM(8, 0), HHMM(17, 0)),
       DefaultDay(4, HHMM(8, 0), HHMM(17, 0)),
       DefaultDay(5, HHMM(8, 0), HHMM(17, 0)),
       DefaultDay(6, HHMM(8, 0), HHMM(15, 0)),
       DefaultDay(0, HHMM(10, 0), HHMM(14, 0)) >>

\* complexity_multiplier is kept in tenths: 15 is 1.5
getDefaultServiceDurations ==
    << [service_id |-> "oil-change",       estimated_minutes |-> 30, complexity_multiplier |-> 10],
       [service_id |-> "brake-inspection", estimated_minutes |-> 45, complexity_multiplier |-> 12],
       [service_id |-> "brake-pads",       estimated_minutes |-> 90, complexity_multiplier |-> 15],
       [service_id |-> "tire-rotation",    estimated_minutes |-> 25, complexity_multiplier |-> 10],
       [service_id |-> "alignment",        estimated_minutes |-> 60, complexity_multiplier |-> 13] >>

defaultData ==
    [ appointments      |-> <<>>,
      shop_schedules    |-> getDefaultShopSchedule,
      service_durations |-> getDefaultServiceDurations,
      tech_schedules    |-> <<>>,
      time_off_requests |-> <<>> ]

\* a save whose stored snapshot has lost the shop schedules
saveSchedulingData_NoSchedules(data) == << [data EXCEPT !.shop_schedules = <<>>] >>

\* saveSchedulingData: the stored item is the whole snapshot
saveSchedulingData(data) == <<data>>

\* getSchedulingData: the saved snapshot, or the defaults
getSchedulingData(st) == IF st # NoData THEN st[1] ELSE defaultData

\* the stored item after getSchedulingData: the defaults are saved when
\* nothing was stored
AfterGetSchedulingData(st) == IF st # NoData THEN st ELSE saveSchedulingData(defaultData)

\* a seeded technician; the optional fields of a record hold <<v>>, and an
\* absent field is undefined
Tech(id, certifications, specialties, hourly_rate) ==
    [ id             |-> id,
      certifications |-> <<certifications>>,
      specialties    |-> <<specialties>>,
      hourly_rate    |-> <<hourly_rate>>,
      active         |-> TRUE ]

initialData ==
    [ customers     |-> <<>>,
      vehicles      |-> <<>>,
      work_orders   |-> <<>>,
      check_ins     |-> <<>>,
      tech_profiles |->
        << Tech("tech-001", <<"ASE A1", "ASE A5", "ASE A8">>,
                <<"brake", "suspension", "general">>, 45),
           Tech("tech-002", <<"ASE A6", "ASE A7", "ASE L1">>,
                <<"electrical", "engine", "diagnostic">>, 50),
           Tech("tech-003", <<"ASE A2", "ASE A3">>,
                <<"transmission", "engine", "general">>, 42) >> ]

\* saveStorageData: the stored item is the whole snapshot
saveStorageData(data) == <<data>>

\* getStorageData: the saved snapshot, or the initial data
getStorageData(db) == IF db # NoData THEN db[1] ELSE initialData

\* the stored item after getStorageData: the initial data is saved when
\* nothing was stored
AfterGetStorageData(db) == IF db # NoData THEN db ELSE saveStorageData(initialData)

----------------------------------------------------------------------------
(* Array helpers *)

\* Array.prototype.findIndex: the first index whose element satisfies P, 0 if none
FindIndex(s, P(_)) ==
    IF \E i \in 1..Len(s) : P(s[i])
    THEN CHOOSE i \in 1..Len(s) : P(s[i]) /\ \A j \in 1..(i - 1) : ~P(s[j])
    ELSE 0

\* Array.prototype.find(...) || null
Find(s, P(_)) == LET i == FindIndex(s, P) IN IF i = 0 THEN Null ELSE <<s[i]>>

----------------------------------------------------------------------------
(* Duration of a service *)

\* getServiceDuration: the first configuration of the service, or Null
getServiceDuration(data, serviceId) ==
    Find(data.service_durations, LAMBDA sd : sd.service_id = serviceId)

\* Pairs <<estimated_minutes, multiplier in tenths>> of the model's settings
\* whose IEEE-754 double product lies just above the exact product, so that
\* Math.ceil gives one more than the exact ceiling (50 * 1.1 is
\* 55.00000000000001).
FloatExcess == { <<50, 11>>, <<90, 11>> }

\* Math.ceil(estimated_minutes * complexity_multiplier)
CeilProduct(est, mult10) ==
    ((est * mult10 + 9) \div 10) + (IF <<est, mult10>> \in FloatExcess THEN 1 ELSE 0)

\* vehicleYear && vehicleYear < 2010
IsOlderVehicle(vehicleYear) == TruthyNum(vehicleYear) /\ vehicleYear[1] < 2010

calculateServiceDuration(data, serviceId, vehicleYear) ==
    LET serviceDuration == getServiceDuration(data, serviceId)
    IN  IF serviceDuration = Null THEN 60
        ELSE IF IsOlderVehicle(vehicleYear)
             THEN CeilProduct(serviceDuration[1].estimated_minutes,
                              serviceDuration[1].complexity_multiplier)
             ELSE serviceDuration[1].estimated_minutes

----------------------------------------------------------------------------
(* Conflict detection *)

\* an overlap test that also counts touching intervals
Overlaps_Closed(startTime, endTime, appointment) ==
    startTime <= appointment.scheduled_end /\ endTime >= appointment.scheduled_start

\* the overlap test of checkAppointmentConflict
Overlaps(startTime, endTime, appointment) ==
    startTime < appointment.scheduled_end /\ endTime > appointment.scheduled_start

\* a scan that skips nothing
IsScanned_All(appointment) == TRUE

\* the appointments the scan does not skip
IsScanned(appointment) == appointment.status # "cancelled"

\* a scan that reports the last scanned appointment that overlaps
checkAppointmentConflict_Last(data, startTime, endTime) ==
    LET hits == { i \in 1..Len(data.appointments) :
                    IsScanned(data.appointments[i])
                    /\ Overlaps(startTime, endTime, data.appointments[i]) }
    IN  IF hits = {} THEN Null
        ELSE << [ type |-> "double_booking",
                  conflicting_appointment_id |->
                      data.appointments[CHOOSE i \in hits : \A j \in hits : j <= i].id ] >>

\* checkAppointmentConflict: the first scanned appointment that overlaps, or Null
checkAppointmentConflict(data, startTime, endTime) ==
    LET i == FindIndex(data.appointments,
                       LAMBDA a : IsScanned(a) /\ Overlaps(startTime, endTime, a))
    IN  IF i = 0 THEN Null
        ELSE << [ type |-> "double_booking",
                  conflicting_appointment_id |-> data.appointments[i].id ] >>

----------------------------------------------------------------------------
(* Slot generation *)

\* a default list of one technician
getAvailableTechs_One(startTime, endTime, serviceId) == << "tech-001" >>

\* getAvailableTechs: a fixed default list, whatever its arguments
getAvailableTechs(startTime, endTime, serviceId) == << "tech-001", "tech-002" >>

\* getShopScheduleForDay: the first schedule of the weekday of date, or Null
getShopScheduleForDay(data, date) ==
    Find(data.shop_schedules, LAMBDA s : s.day_of_week = GetDay(date))

\* a lunch test that also counts a slot ending exactly at lunch_start
LunchConflict_Touching(schedule, currentSlot, slotEnd) ==
    /\ TruthyStr(schedule.lunch_start)
    /\ TruthyStr(schedule.lunch_end)
    /\ StrLess(ToTimeString(currentSlot), schedule.lunch_end)
    /\ ~StrLess(ToTimeString(slotEnd), schedule.lunch_start)

\* the lunch test on the "HH:MM" strings of the slot
LunchConflict(schedule, currentSlot, slotEnd) ==
    /\ TruthyStr(schedule.lunch_start)
    /\ TruthyStr(schedule.lunch_end)
    /\ StrLess(ToTimeString(currentSlot), schedule.lunch_end)
    /\ StrLess(schedule.lunch_start, ToTimeString(slotEnd))

\* one TimeSlot, as the loop body builds it
MakeSlot(data, schedule, currentSlot, slotEnd, serviceId) ==
    LET lunch    == LunchConflict(schedule, currentSlot, slotEnd)
        conflict == IF lunch THEN Null
                    ELSE checkAppointmentConflict(data, currentSlot, slotEnd)
    IN  [ start     |-> currentSlot,
          end       |-> slotEnd,
          available |-> ~lunch /\ conflict = Null,
          reason    |-> IF lunch THEN "lunch"
                        ELSE IF conflict # Null THEN "booked" ELSE "undefined",
          available_techs |-> getAvailableTechs(currentSlot, slotEnd, serviceId) ]

\* a slot end one step after the start, whatever the duration
SlotEnd_OneStep(currentSlot, serviceDuration) == currentSlot + 30

\* slotEnd = new Date(currentSlot.getTime() + serviceDuration * 60000)
SlotEnd(currentSlot, serviceDuration) == currentSlot + serviceDuration

\* a break that also drops the slot ending exactly at closing
PastClosing_AtClosing(slotEnd, endTime) == slotEnd >= endTime

\* if (slotEnd > endTime) break
PastClosing(slotEnd, endTime) == slotEnd > endTime

\* a step of a quarter of an hour
NextSlot_Quarter(currentSlot) == currentSlot + 15

\* currentSlot.setMinutes(currentSlot.getMinutes() + 30)
NextSlot(currentSlot) == currentSlot + 30

\* the while loop of getAvailableTimeSlots
RECURSIVE SlotLoop(_, _, _, _, _, _, _)
SlotLoop(data, schedule, serviceId, serviceDuration, endTime, currentSlot, slots) ==
    IF ~(currentSlot < endTime) THEN slots
    ELSE LET slotEnd == SlotEnd(currentSlot, serviceDuration)
         IN  IF PastClosing(slotEnd, endTime) THEN slots
             ELSE SlotLoop(data, schedule, serviceId, serviceDuration, endTime,
                           NextSlot(currentSlot),
                           Append(slots, MakeSlot(data, schedule, currentSlot, slotEnd, serviceId)))

\* a closed test that only sees a missing schedule
ShopClosed_MissingOnly(schedule) == schedule = Null

\* if (!schedule || schedule.is_closed) return []
ShopClosed(schedule) == schedule = Null \/ schedule[1].is_closed

getAvailableTimeSlots(data, date, serviceId, vehicleYear) ==
    LET schedule == getShopScheduleForDay(data, date)
    IN  IF ShopClosed(schedule) THEN <<>>
        ELSE LET serviceDuration == calculateServiceDuration(data, serviceId, vehicleYear)
                 open      == SplitTime(schedule[1].open_time)
                 close     == SplitTime(schedule[1].close_time)
                 startTime == SetHours(date, open[1], open[2])
                 endTime   == SetHours(date, close[1], close[2])
             IN  SlotLoop(data, schedule[1], serviceId, serviceDuration, endTime, startTime, <<>>)

----------------------------------------------------------------------------
(* Records *)

\* a spread in which the fields of the record win
Merge_RecordWins(record, updates) ==
    [f \in DOMAIN record \cup DOMAIN updates |->
        IF f \in DOMAIN record THEN record[f] ELSE updates[f]]

\* { ...record, ...updates }
Merge(record, updates) ==
    [f \in DOMAIN record \cup DOMAIN updates |->
        IF f \in DOMAIN updates THEN updates[f] ELSE record[f]]

\* uuidv4(): the n-th identifier handed out
Uuid(n) ==
    << "uuid-1", "uuid-2", "uuid-3", "uuid-4", "uuid-5", "uuid-6", "uuid-7", "uuid-8",
       "uuid-9", "uuid-10", "uuid-11", "uuid-12" >>[n]

Call(op, args, value) == [op |-> op, args |-> args, value |-> value]

----------------------------------------------------------------------------
(* Inputs of the model *)

Sunday == Ts(0, 0)
Monday == Ts(1, 0)

\* the dates asked for: a Sunday at midnight and the Monday after it at 10:15
Dates == { Sunday, Monday + 615 }

\* services asked for; "detailing" has no duration configuration
ServiceIds == { "oil-change", "brake-inspection", "brake-pads", "detailing" }

\* optional vehicle years
VehicleYears == { Undefined, <<0>>, <<2005>>, <<2010>>, <<2020>> }

\* the <<serviceId, vehicleYear>> the slot engine is asked for: 30, 45 and
\* 45 * 1.2 = 54 minutes with the seeded durations
SlotRequests ==
    { <<"oil-change", Undefined>>, <<"brake-inspection", Undefined>>,
      <<"brake-inspection", <<2005>>>> }

\* appointments created for the slot engine: Monday 11:30-12:30 (over the
\* start of lunch) and Monday 09:00-10:00
SlotAppointmentData ==
    { [scheduled_start |-> Monday + 690, scheduled_end |-> Monday + 750, status |-> "scheduled"],
      [scheduled_start |-> Monday + 540, scheduled_end |-> Monday + 600, status |-> "scheduled"] }
SlotAppointmentUpdates == { [status |-> "cancelled"] }

\* settings the owner changes for the slot engine
SlotScheduleChanges ==
    { <<1, [close_time |-> HHMM(12, 15)]>>,
      <<1, [lunch_start |-> Undefined]>>,
      <<0, [is_closed |-> TRUE]>>,
      <<0, [day_of_week |-> 8]>> }
SlotDurationChanges == { <<"oil-change", [estimated_minutes |-> 50]>> }

----------------------------------------------------------------------------
(* Operations of SchedulingService *)

\* what getSchedulingData returns to the operation
Data == getSchedulingData(storage)

GetAvailableTimeSlots(date, serviceId, vehicleYear) ==
    LET args     == <<date, serviceId, vehicleYear>>
        value    == getAvailableTimeSlots(Data, date, serviceId, vehicleYear)
        repeated == hist # Null /\ hist[1].args = args
    IN  /\ storage' = AfterGetSchedulingData(storage)
        /\ ret' = Call("getAvailableTimeSlots", args, value)
        /\ hist' = << [ args     |-> args,
                        value    |-> value,
                        repeated |-> repeated,
                        seeded   |-> IF repeated THEN hist[1].seeded
                                     ELSE storage = NoData ] >>
        /\ UNCHANGED <<database, nextId, clock, tabs, log>>

CheckAppointmentConflict(startTime, endTime) ==
    /\ storage' = AfterGetSchedulingData(storage)
    /\ ret' = Call("checkAppointmentConflict", <<startTime, endTime>>,
                   checkAppointmentConflict(Data, startTime, endTime))
    /\ UNCHANGED <<database, nextId, hist, clock, tabs, log>>

CalculateServiceDuration(serviceId, vehicleYear) ==
    /\ storage' = AfterGetSchedulingData(storage)
    /\ ret' = Call("calculateServiceDuration", <<serviceId, vehicleYear>>,
                   calculateServiceDuration(Data, serviceId, vehicleYear))
    /\ UNCHANGED <<database, nextId, hist, clock, tabs, log>>

\* a createAppointment that stores nothing when the interval is in conflict
CreateAppointment_Checked(appointmentData) ==
    LET appointment == Merge(Merge([id |-> Uuid(nextId + 1)], appointmentData),
                             [created_at |-> clock, updated_at |-> clock])
        conflict == checkAppointmentConflict(Data, appointmentData.scheduled_start,
                                             appointmentData.scheduled_end)
    IN  /\ Len(Data.appointments) < MaxAppointments
        /\ storage' = IF conflict # Null THEN AfterGetSchedulingData(storage)
                      ELSE saveSchedulingData([Data EXCEPT !.appointments = Append(@, appointment)])
        /\ nextId' = nextId + 1
        /\ ret' = Call("createAppointment", <<appointmentData>>, appointment)
        /\ hist' = Null
        /\ UNCHANGED <<database, clock, tabs, log>>

CreateAppointment(appointmentData) ==
    LET appointment == Merge(Merge([id |-> Uuid(nextId + 1)], appointmentData),
                             [created_at |-> clock, updated_at |-> clock])
    IN  /\ Len(Data.appointments) < MaxAppointments
        /\ storage' = saveSchedulingData([Data EXCEPT !.appointments = Append(@, appointment)])
        /\ nextId' = nextId + 1
        /\ ret' = Call("createAppointment", <<appointmentData>>, appointment)
        /\ hist' = Null
        /\ UNCHANGED <<database, clock, tabs, log>>

\* an update that takes a cancelled appointment out of the store
UpdateAppointment_Remove(id, updates) ==
    LET appointmentIndex == FindIndex(Data.appointments, LAMBDA a : a.id = id)
    IN  /\ hist' = Null
        /\ UNCHANGED <<database, nextId, clock, tabs, log>>
        /\ IF appointmentIndex = 0
           THEN /\ storage' = AfterGetSchedulingData(storage)
                /\ ret' = Call("updateAppointment", <<id, updates>>, Null)
           ELSE LET updated == Merge(Merge(Data.appointments[appointmentIndex], updates),
                                     [updated_at |-> clock])
                    kept == IF updated.status = "cancelled"
                            THEN SelectSeq(Data.appointments, LAMBDA a : a.id # id)
                            ELSE [Data.appointments EXCEPT ![appointmentIndex] = updated]
                IN  /\ storage' = saveSchedulingData([Data EXCEPT !.appointments = kept])
                    /\ ret' = Call("updateAppointment", <<id, updates>>, <<updated>>)

UpdateAppointment(id, updates) ==
    LET appointmentIndex == FindIndex(Data.appointments, LAMBDA a : a.id = id)
    IN  /\ hist' = Null
        /\ UNCHANGED <<database, nextId, clock, tabs, log>>
        /\ IF appointmentIndex = 0
           THEN /\ storage' = AfterGetSchedulingData(storage)
                /\ ret' = Call("updateAppointment", <<id, updates>>, Null)
           ELSE LET updated == Merge(Merge(Data.appointments[appointmentIndex], updates),
                                     [updated_at |-> clock])
                IN  /\ storage' = saveSchedulingData([Data EXCEPT !.appointments[appointmentIndex] = updated])
                    /\ ret' = Call("updateAppointment", <<id, updates>>, <<updated>>)

UpdateServiceDuration(serviceId, updates) ==
    LET durationIndex == FindIndex(Data.service_durations, LAMBDA sd : sd.service_id = serviceId)
    IN  /\ hist' = Null
        /\ UNCHANGED <<database, nextId, clock, tabs, log>>
        /\ IF durationIndex = 0
           THEN /\ storage' = AfterGetSchedulingData(storage)
                /\ ret' = Call("updateServiceDuration", <<serviceId, updates>>, Null)
           ELSE LET updated == Merge(Data.service_durations[durationIndex], updates)
                IN  /\ storage' = saveSchedulingData([Data EXCEPT !.service_durations[durationIndex] = updated])
                    /\ ret' = Call("updateServiceDuration", <<serviceId, updates>>, <<updated>>)

UpdateShopSchedule(dayOfWeek, updates) ==
    LET scheduleIndex == FindIndex(Data.shop_schedules, LAMBDA s : s.day_of_week = dayOfWeek)
    IN  /\ hist' = Null
        /\ UNCHANGED <<database, nextId, clock, tabs, log>>
        /\ IF scheduleIndex = 0
           THEN /\ storage' = AfterGetSchedulingData(storage)
                /\ ret' = Call("updateShopSchedule", <<dayOfWeek, updates>>, Null)
           ELSE LET updated == Merge(Data.shop_schedules[scheduleIndex], updates)
                IN  /\ storage' = saveSchedulingData([Data EXCEPT !.shop_schedules[scheduleIndex] = updated])
                    /\ ret' = Call("updateShopSchedule", <<dayOfWeek, updates>>, <<updated>>)

----------------------------------------------------------------------------
(* Roster operations of BrowserDatabaseService *)

\* what getStorageData returns to the operation
Db == getStorageData(database)

\* uuids handed out to technicians so far (appointments are never removed)
CreatedTechs == nextId - Len(Data.appointments)

CreateTechProfile(techData) ==
    LET tech == Merge([id |-> Uuid(nextId + 1)], techData)
    IN  /\ database' = saveStorageData([Db EXCEPT !.tech_profiles = Append(@, tech)])
        /\ nextId' = nextId + 1
        /\ ret' = Call("createTechProfile", <<techData>>, tech)
        /\ UNCHANGED <<storage, hist, clock, tabs, log>>

UpdateTechProfile(techId, updates) ==
    LET techIndex == FindIndex(Db.tech_profiles, LAMBDA t : t.id = techId)
    IN  /\ UNCHANGED <<storage, nextId, hist, clock, tabs, log>>
        /\ IF techIndex = 0
           THEN /\ database' = AfterGetStorageData(database)
                /\ ret' = Call("updateTechProfile", <<techId, updates>>, Null)
           ELSE LET updated == Merge(Db.tech_profiles[techIndex], updates)
                IN  /\ database' = saveStorageData([Db EXCEPT !.tech_profiles[techIndex] = updated])
                    /\ ret' = Call("updateTechProfile", <<techId, updates>>, <<updated>>)

DeleteTechProfile(techId) ==
    LET remaining == SelectSeq(Db.tech_profiles, LAMBDA t : t.id # techId)
    IN  /\ UNCHANGED <<storage, nextId, hist, clock, tabs, log>>
        /\ IF Len(remaining) < Len(Db.tech_profiles)
           THEN /\ database' = saveStorageData([Db EXCEPT !.tech_profiles = remaining])
                /\ ret' = Call("deleteTechProfile", <<techId>>, TRUE)
           ELSE /\ database' = AfterGetStorageData(database)
                /\ ret' = Call("deleteTechProfile", <<techId>>, FALSE)

----------------------------------------------------------------------------
(* Strings *)

UpperCaseLetters == "ABCDEFGHIJKLMNOPQRSTUVWXYZ"
LowerCaseLetters == "abcdefghijklmnopqrstuvwxyz"

\* the i-th character of a string
CharAt(s, i) == SubSeq(s, i, i)

\* the lower-case letter of each upper-case letter
LowerCaseOf ==
    [ c \in { CharAt(UpperCaseLetters, i) : i \in 1..26 } |->
        CharAt(LowerCaseLetters, CHOOSE i \in 1..26 : CharAt(UpperCaseLetters, i) = c) ]

\* String.prototype.toLowerCase on one character
LowerChar(c) == IF c \in DOMAIN LowerCaseOf THEN LowerCaseOf[c] ELSE c

\* String.prototype.toLowerCase
RECURSIVE ToLowerCase(_)
ToLowerCase(s) ==
    IF Len(s) = 0 THEN s ELSE LowerChar(CharAt(s, 1)) \o ToLowerCase(Tail(s))

\* String.prototype.includes
Includes(text, word) ==
    \E i \in 1..(Len(text) - Len(word) + 1) : SubSeq(text, i, i + Len(word) - 1) = word

\* optionalString?.toLowerCase() || ''
LowerOrEmpty(s) == IF s = Undefined THEN "" ELSE ToLowerCase(s[1])

\* record.field of a field the record may lack
Opt(record, field) == IF field \in DOMAIN record THEN record[field] ELSE Undefined

\* the sum of a sequence of numbers
RECURSIVE Sum(_)
Sum(s) == IF s = <<>> THEN 0 ELSE Head(s) + Sum(Tail(s))

----------------------------------------------------------------------------
(* Technician ranking *)

\* getTechWorkload: the work orders of the technician that are pending or
\* in progress (the hours of the time entries are left out)
getTechWorkload(data, techId) ==
    LET activeJobs == SelectSeq(data.work_orders,
                         LAMBDA wo : /\ Opt(wo, "assigned_tech") = <<techId>>
                                     /\ wo.status \in {"pending", "in_progress"})
    IN  [ activeJobs |-> Len(activeJobs), totalEstimatedHours |-> Len(activeJobs) * 2 ]

keywordMap(specialty) ==
    CASE specialty = "brake" -> <<"brake", "stop", "squeaking", "grinding", "pedal">>
      [] specialty = "engine" ->
            <<"engine", "motor", "performance", "power", "stall", "rough idle">>
      [] specialty = "electrical" ->
            <<"electric", "battery", "alternator", "starter", "wiring", "lights">>
      [] specialty = "transmission" ->
            <<"transmission", "shift", "gear", "clutch", "automatic">>
      [] specialty = "suspension" ->
            <<"suspension", "shock", "strut", "bounce", "ride", "alignment">>
      [] specialty = "hvac" ->
            <<"heat", "air conditioning", "ac", "climate", "defrost", "blower">>
      [] specialty = "tire" -> <<"tire", "wheel", "alignment", "balance", "rotation">>
      [] OTHER -> <<>>

categoryMap(specialty) ==
    CASE specialty = "engine" -> <<"maintenance", "service", "tune-up", "oil">>
      [] specialty = "brake" -> <<"safety", "inspection">>
      [] specialty = "electrical" -> <<"diagnostic", "check engine", "warning light">>
      [] specialty = "transmission" -> <<"fluid", "service">>
      [] specialty = "hvac" -> <<"comfort", "cabin">>
      [] specialty = "tire" -> <<"safety", "maintenance">>
      [] OTHER -> <<>>

matchesSpecialtyKeywords(specialty, jobText) ==
    LET keywords == keywordMap(specialty)
    IN  \E i \in 1..Len(keywords) : Includes(jobText, keywords[i])

matchesSpecialtyCategory(specialty, jobText) ==
    LET categories == categoryMap(specialty)
    IN  \E i \in 1..Len(categories) : Includes(jobText, categories[i])

urgentKeywords == <<"urgent", "emergency", "broke down", "won't start", "dangerous", "unsafe">>

\* isUrgentJob: an urgent keyword in the customer concern
isUrgentJob(workOrder) ==
    LET concern == LowerOrEmpty(Opt(workOrder, "customer_concern"))
    IN  \E i \in 1..Len(urgentKeywords) : Includes(concern, urgentKeywords[i])

\* the text the specialties are matched against
JobText(workOrder) ==
    ToLowerCase(LowerOrEmpty(Opt(workOrder, "customer_concern")) \o " "
                \o LowerOrEmpty(Opt(workOrder, "description")))

\* workload thresholds one job too high
WorkloadScore_Late(activeJobs) ==
    IF activeJobs >= 5 THEN 0 - 50
    ELSE IF activeJobs >= 4 THEN 0 - 30
    ELSE IF activeJobs >= 3 THEN 0 - 15
    ELSE IF activeJobs = 0 THEN 25
    ELSE 0

\* 1. workload
WorkloadScore(activeJobs) ==
    IF activeJobs >= 4 THEN 0 - 50
    ELSE IF activeJobs >= 3 THEN 0 - 30
    ELSE IF activeJobs >= 2 THEN 0 - 15
    ELSE IF activeJobs = 0 THEN 25
    ELSE 0

\* 2. experience
ExperienceScore(tech) ==
    LET hourly_rate == Opt(tech, "hourly_rate")
    IN  IF ~TruthyNum(hourly_rate) THEN 0
        ELSE IF hourly_rate[1] >= 35 THEN 15
        ELSE IF hourly_rate[1] >= 25 THEN 10
        ELSE 5

\* ten points for each certification
CertificationScore_Ten(tech) ==
    LET certifications == Opt(tech, "certifications")
    IN  IF certifications # Undefined /\ Len(certifications[1]) > 0
        THEN Len(certifications[1]) * 10 ELSE 0

\* 3. certifications
CertificationScore(tech) ==
    LET certifications == Opt(tech, "certifications")
    IN  IF certifications # Undefined /\ Len(certifications[1]) > 0
        THEN Len(certifications[1]) * 5 ELSE 0

\* a specialty that collects the bonus of every tier it matches
SpecialtyBonus_EveryTier(specialty, jobText) ==
    LET specialtyLower == ToLowerCase(specialty)
    IN  (IF Includes(jobText, specialtyLower) THEN 40 ELSE 0)
        + (IF matchesSpecialtyKeywords(specialtyLower, jobText) THEN 30 ELSE 0)
        + (IF matchesSpecialtyCategory(specialtyLower, jobText) THEN 20 ELSE 0)

\* 4. the body of the forEach over the specialties
SpecialtyBonus(specialty, jobText) ==
    LET specialtyLower == ToLowerCase(specialty)
    IN  IF Includes(jobText, specialtyLower) THEN 40
        ELSE IF matchesSpecialtyKeywords(specialtyLower, jobText) THEN 30
        ELSE IF matchesSpecialtyCategory(specialtyLower, jobText) THEN 20
        ELSE 0

SpecialtyScore(tech, workOrder) ==
    LET specialties == Opt(tech, "specialties")
    IN  IF specialties # Undefined /\ Len(specialties[1]) > 0
        THEN LET jobText == JobText(workOrder)
                 bonuses == [i \in 1..Len(specialties[1]) |->
                                SpecialtyBonus(specialties[1][i], jobText)]
                 specialtyMatch == \E i \in 1..Len(bonuses) : bonuses[i] > 0
             IN  Sum(bonuses) + (IF specialtyMatch THEN 0 ELSE 0 - 10)
        ELSE 0

\* 5. vehicle age; undefined < 2010 is false
VehicleScore(data, tech, workOrder) ==
    LET vehicle_id == Opt(workOrder, "vehicle_id")
        vehicle == IF vehicle_id = Undefined \/ Len(vehicle_id[1]) = 0 THEN Null
                   ELSE Find(data.vehicles, LAMBDA v : v.id = vehicle_id[1])
        hourly_rate == Opt(tech, "hourly_rate")
    IN  IF /\ vehicle # Null
           /\ Opt(vehicle[1], "year") # Undefined
           /\ Opt(vehicle[1], "year")[1] < 2010
           /\ TruthyNum(hourly_rate)
           /\ hourly_rate[1] >= 30
        THEN 10 ELSE 0

\* 6. urgency
UrgencyScore(tech, workOrder) ==
    LET hourly_rate == Opt(tech, "hourly_rate")
    IN  IF isUrgentJob(workOrder) /\ TruthyNum(hourly_rate) /\ hourly_rate[1] >= 30
        THEN 15 ELSE 0

\* the body of the map over the active technicians
ScoreTech(data, workOrder, tech) ==
    LET workload == getTechWorkload(data, tech.id)
        score == WorkloadScore(workload.activeJobs)
                 + ExperienceScore(tech)
                 + CertificationScore(tech)
                 + SpecialtyScore(tech, workOrder)
                 + VehicleScore(data, tech, workOrder)
                 + UrgencyScore(tech, workOrder)
    IN  Merge(tech, [score |-> score, workload |-> workload])

\* the place of an element in a sorted sequence: after every element whose
\* score is not smaller
InsertByScore(sorted, e) ==
    LET k == Cardinality({ i \in 1..Len(sorted) : sorted[i].score >= e.score })
    IN  SubSeq(sorted, 1, k) \o <<e>> \o SubSeq(sorted, k + 1, Len(sorted))

\* a sort that puts an element before the elements of equal score
RECURSIVE SortByScore_TiesReversed(_)
SortByScore_TiesReversed(s) ==
    IF s = <<>> THEN <<>>
    ELSE LET sorted == SortByScore_TiesReversed(SubSeq(s, 1, Len(s) - 1))
             e == s[Len(s)]
             k == Cardinality({ i \in 1..Len(sorted) : sorted[i].score > e.score })
         IN  SubSeq(sorted, 1, k) \o <<e>> \o SubSeq(sorted, k + 1, Len(sorted))

\* sort((a, b) => b.score - a.score): stable, descending by score
RECURSIVE SortByScore(_)
SortByScore(s) ==
    IF s = <<>> THEN <<>>
    ELSE InsertByScore(SortByScore(SubSeq(s, 1, Len(s) - 1)), s[Len(s)])

\* a filter that keeps every technician
ActiveTechs_All(data) == data.tech_profiles

\* data.tech_profiles.filter(t => t.active)
ActiveTechs(data) == SelectSeq(data.tech_profiles, LAMBDA t : t.active)

\* scoredTechs.slice(0, 5)
TopFive(scoredTechs) ==
    SubSeq(scoredTechs, 1, IF Len(scoredTechs) < 5 THEN Len(scoredTechs) ELSE 5)

suggestTechForWorkOrder(data, workOrderId) ==
    LET workOrder == Find(data.work_orders, LAMBDA wo : wo.id = workOrderId)
        allTechs == ActiveTechs(data)
    IN  IF workOrder = Null THEN <<>>
        ELSE IF Len(allTechs) = 0 THEN <<>>
        ELSE TopFive(SortByScore([i \in 1..Len(allTechs) |->
                                     ScoreTech(data, workOrder[1], allTechs[i])]))

----------------------------------------------------------------------------
(* Work order operations of BrowserDatabaseService and of the technician *)
(* dashboard                                                              *)

\* uuidv4() in createVehicle and in createWorkOrder: vehicles and work
\* orders are never removed, so the n-th of them gets the n-th identifier
VehicleUuid(n) == << "vehicle-uuid-1", "vehicle-uuid-2", "vehicle-uuid-3" >>[n]
WorkOrderUuid(n) ==
    << "order-uuid-1", "order-uuid-2", "order-uuid-3",
       "order-uuid-4", "order-uuid-5", "order-uuid-6" >>[n]

CreateVehicle(vehicleData) ==
    LET vehicle == Merge([id |-> VehicleUuid(Len(Db.vehicles) + 1)], vehicleData)
    IN  /\ database' = saveStorageData([Db EXCEPT !.vehicles = Append(@, vehicle)])
        /\ ret' = Call("createVehicle", <<vehicleData>>, vehicle)
        /\ UNCHANGED <<storage, nextId, hist, clock, tabs, log>>

CreateWorkOrder(workOrderData) ==
    LET workOrder == Merge([id |-> WorkOrderUuid(Len(Db.work_orders) + 1)], workOrderData)
    IN  /\ database' = saveStorageData([Db EXCEPT !.work_orders = Append(@, workOrder)])
        /\ ret' = Call("createWorkOrder", <<workOrderData>>, workOrder)
        /\ UNCHANGED <<storage, nextId, hist, clock, tabs, log>>

\* an assignment that does not look the technician up
AssignTechToWorkOrder_AnyTech(workOrderId, techId) ==
    LET workOrderIndex == FindIndex(Db.work_orders, LAMBDA wo : wo.id = workOrderId)
    IN  /\ UNCHANGED <<storage, nextId, hist, clock, tabs, log>>
        /\ IF workOrderIndex = 0
           THEN /\ database' = AfterGetStorageData(database)
                /\ ret' = Call("assignTechToWorkOrder", <<workOrderId, techId>>, Null)
           ELSE LET updated == Merge(Db.work_orders[workOrderIndex],
                                     [assigned_tech |-> <<techId>>])
                IN  /\ database' = saveStorageData([Db EXCEPT !.work_orders[workOrderIndex] = updated])
                    /\ ret' = Call("assignTechToWorkOrder", <<workOrderId, techId>>, <<updated>>)

AssignTechToWorkOrder(workOrderId, techId) ==
    LET workOrderIndex == FindIndex(Db.work_orders, LAMBDA wo : wo.id = workOrderId)
        tech == Find(Db.tech_profiles, LAMBDA t : t.id = techId)
    IN  /\ UNCHANGED <<storage, nextId, hist, clock, tabs, log>>
        /\ IF workOrderIndex = 0 \/ tech = Null \/ ~tech[1].active
           THEN /\ database' = AfterGetStorageData(database)
                /\ ret' = Call("assignTechToWorkOrder", <<workOrderId, techId>>, Null)
           ELSE LET updated == Merge(Db.work_orders[workOrderIndex],
                                     [assigned_tech |-> <<techId>>])
                IN  /\ database' = saveStorageData([Db EXCEPT !.work_orders[workOrderIndex] = updated])
                    /\ ret' = Call("assignTechToWorkOrder", <<workOrderId, techId>>, <<updated>>)

\* TechDashboard.handleStartJob of the technician currentTechId
StartJob(workOrderId, currentTechId) ==
    LET workOrderIndex == FindIndex(Db.work_orders, LAMBDA wo : wo.id = workOrderId)
    IN  /\ UNCHANGED <<storage, nextId, hist, clock, tabs, log>>
        /\ ret' = Call("handleStartJob", <<workOrderId, currentTechId>>, Null)
        /\ IF workOrderIndex = 0
           THEN database' = AfterGetStorageData(database)
           ELSE database' = saveStorageData(
                    [Db EXCEPT !.work_orders[workOrderIndex] =
                        Merge(@, [status |-> "in_progress", assigned_tech |-> <<currentTechId>>])])

\* TechDashboard.handleCompleteJob
CompleteJob(workOrderId) ==
    LET workOrderIndex == FindIndex(Db.work_orders, LAMBDA wo : wo.id = workOrderId)
    IN  /\ UNCHANGED <<storage, nextId, hist, clock, tabs, log>>
        /\ ret' = Call("handleCompleteJob", <<workOrderId>>, Null)
        /\ IF workOrderIndex = 0
           THEN database' = AfterGetStorageData(database)
           ELSE database' = saveStorageData(
                    [Db EXCEPT !.work_orders[workOrderIndex] =
                        Merge(@, [status |-> "completed"])])

SuggestTechForWorkOrder(workOrderId) ==
    /\ database' = AfterGetStorageData(database)
    /\ ret' = Call("suggestTechForWorkOrder", <<workOrderId>>,
                   suggestTechForWorkOrder(Db, workOrderId))
    /\ UNCHANGED <<storage, nextId, hist, clock, tabs, log>>

----------------------------------------------------------------------------
(* Check-ins of BrowserDatabaseService *)

\* what a call that throws leaves as its outcome
Throw(message) == [error |-> message]

\* processCustomerCheckIn: the customer of the phone number and the vehicle
\* of the VIN are found or created, and a pending check-in is created; each
\* of createCustomer, createVehicle and createCheckIn saves the data.  The
\* appointment_date of the check-in, a timestamp no operation reads, is
\* left out.  The outcome is the data saved last, the number of identifiers
\* handed out and the check-in returned.
processCustomerCheckIn(formData) ==
    LET found     == Find(Db.customers, LAMBDA c : c.phone = formData.customer.phone)
        customer  == IF found # Null THEN found[1]
                     ELSE Merge(Merge([id |-> Uuid(nextId + 1)], formData.customer),
                                [created_at |-> clock, updated_at |-> clock])
        n1        == IF found # Null THEN nextId ELSE nextId + 1
        customers == IF found # Null THEN Db.customers ELSE Append(Db.customers, customer)
        vin       == Opt(formData.vehicle, "vin")
        foundVehicle ==
            IF vin = Undefined \/ vin[1] = "" THEN Null
            ELSE Find(Db.vehicles, LAMBDA v : Opt(v, "vin") = vin)
        vehicle   == IF foundVehicle # Null THEN foundVehicle[1]
                     ELSE Merge(Merge(Merge([id |-> Uuid(n1 + 1)], [customer_id |-> customer.id]),
                                      formData.vehicle),
                                [created_at |-> clock, updated_at |-> clock])
        n2        == IF foundVehicle # Null THEN n1 ELSE n1 + 1
        vehicles  == IF foundVehicle # Null THEN Db.vehicles ELSE Append(Db.vehicles, vehicle)
        checkIn   == [ id               |-> Uuid(n2 + 1),
                       customer_id      |-> <<customer.id>>,
                       vehicle_id       |-> <<vehicle.id>>,
                       status           |-> "pending",
                       customer_concern |-> Opt(formData.service, "customer_concern"),
                       mileage          |-> Opt(formData.service, "mileage"),
                       checked_in_at    |-> clock,
                       created_at       |-> clock ]
    IN  [ data    |-> [Db EXCEPT !.customers = customers,
                                   !.vehicles = vehicles,
                                   !.check_ins = Append(@, checkIn)],
          nextId  |-> n2 + 1,
          checkIn |-> checkIn ]

\* App.handleCheckInSubmit: the form is processed
ProcessCustomerCheckIn(formData) ==
    LET outcome == processCustomerCheckIn(formData)
    IN  /\ database' = saveStorageData(outcome.data)
        /\ nextId' = outcome.nextId
        /\ ret' = Call("processCustomerCheckIn", <<formData>>, outcome.checkIn)
        /\ UNCHANGED <<storage, hist, clock, tabs, log>>

\* the work order createWorkOrderFromCheckIn makes of a check-in
WorkOrderOf(checkIn, id, now) ==
    [ id               |-> id,
      vehicle_id       |-> checkIn.vehicle_id,
      customer_id      |-> checkIn.customer_id,
      status           |-> "pending",
      mileage          |-> checkIn.mileage,
      customer_concern |-> checkIn.customer_concern,
      created_at       |-> now,
      updated_at       |-> now ]

\* createWorkOrderFromCheckIn: the work order is pushed and the check-in
\* marked on the same data, which is saved once
CreateWorkOrderFromCheckIn(checkInId) ==
    LET index     == FindIndex(Db.check_ins, LAMBDA ci : ci.id = checkInId)
        workOrder == WorkOrderOf(Db.check_ins[index], Uuid(nextId + 1), clock)
    IN  /\ UNCHANGED <<storage, hist, clock, tabs, log>>
        /\ IF index = 0
           THEN /\ database' = AfterGetStorageData(database)
                /\ nextId' = nextId
                /\ ret' = Call("createWorkOrderFromCheckIn", <<checkInId>>,
                               Throw("Check-in not found"))
           ELSE /\ database' = saveStorageData(
                        [Db EXCEPT !.work_orders = Append(@, workOrder),
                                   !.check_ins[index].status = "work_order_created"])
                /\ nextId' = nextId + 1
                /\ ret' = Call("createWorkOrderFromCheckIn", <<checkInId>>, workOrder)

\* createWorkOrderFromCheckIn of src/services/browserDatabase.ts: the data is
\* read, createWorkOrder reads the data again, pushes the work order onto
\* its own copy and saves it; the check-in is then marked on the data read
\* first, which is saved over the copy of createWorkOrder
CreateWorkOrderFromCheckInBySteps(checkInId) ==
    LET index     == FindIndex(Db.check_ins, LAMBDA ci : ci.id = checkInId)
        workOrder == WorkOrderOf(Db.check_ins[index], Uuid(nextId + 1), clock)
    IN  /\ UNCHANGED <<storage, hist, clock, tabs, log>>
        /\ IF index = 0
           THEN /\ database' = AfterGetStorageData(database)
                /\ nextId' = nextId
                /\ ret' = Call("createWorkOrderFromCheckIn", <<checkInId>>,
                               Throw("Check-in not found"))
           ELSE /\ database' = saveStorageData(
                        [Db EXCEPT !.check_ins[index].status = "work_order_created"])
                /\ nextId' = nextId + 1
                /\ ret' = Call("createWorkOrderFromCheckIn", <<checkInId>>, workOrder)

\* Array.sort by a numeric field, ascending or descending; the sort is
\* stable, so records of equal field keep their order
RECURSIVE InsertByField(_, _, _, _)
InsertByField(sorted, x, field, descending) ==
    IF sorted = <<>> THEN <<x>>
    ELSE IF (IF descending THEN Head(sorted)[field] >= x[field]
                           ELSE Head(sorted)[field] <= x[field])
         THEN <<Head(sorted)>> \o InsertByField(Tail(sorted), x, field, descending)
         ELSE <<x>> \o sorted

RECURSIVE SortByField(_, _, _)
SortByField(s, field, descending) ==
    IF s = <<>> THEN <<>>
    ELSE InsertByField(SortByField(SubSeq(s, 1, Len(s) - 1), field, descending),
                       s[Len(s)], field, descending)

\* getPendingCheckIns: the pending check-ins, the earliest first
getPendingCheckIns(data) ==
    SortByField(SelectSeq(data.check_ins, LAMBDA ci : ci.status = "pending"),
                "checked_in_at", FALSE)

\* getWorkOrders: the work orders, the latest first
getWorkOrders(data) == SortByField(data.work_orders, "created_at", TRUE)

\* getCustomer and getVehicle: the record of the identifier, or Null
getCustomer(data, customerId) == Find(data.customers, LAMBDA c : c.id = customerId)
getVehicle(data, vehicleId) == Find(data.vehicles, LAMBDA v : v.id = vehicleId)

----------------------------------------------------------------------------
(* Browser tabs: localStorage is shared by the tabs of the shop, each tab *)
(* runs its own calls and holds its own component state                   *)

Tabs == { "tab-1", "tab-2" }

\* a tab with no call in progress, whose dashboard has loaded no job and
\* whose check-in form has no appointment selected
IdleTab ==
    [ pc                  |-> "idle",
      frame               |-> Null,
      jobs                |-> <<>>,
      selectedAppointment |-> Null,
      pendingAppointment  |-> Null ]

\* the tab returns from its call
Return(tab) == [tabs EXCEPT ![tab].pc = "idle", ![tab].frame = Null]

\* the local variables of the call in progress in the tab
Frame(tab) == tabs[tab].frame[1]

\* createAppointment up to saveSchedulingData: the data is read, the
\* appointment is built and pushed onto the data read
CreateAppointmentRead(tab, appointmentData) ==
    LET appointment == Merge(Merge([id |-> Uuid(nextId + 1)], appointmentData),
                             [created_at |-> clock, updated_at |-> clock])
    IN  /\ tabs[tab].pc = "idle"
        /\ nextId < MaxAppointments
        /\ storage' = AfterGetSchedulingData(storage)
        /\ nextId' = nextId + 1
        /\ tabs' = [tabs EXCEPT
                      ![tab].pc = "createAppointment",
                      ![tab].frame = << [ data |-> [Data EXCEPT !.appointments = Append(@, appointment)],
                                          appointmentData |-> appointmentData,
                                          appointment |-> appointment ] >>]
        /\ log' = Append(log, [tab |-> tab, step |-> "read", id |-> appointment.id])
        /\ UNCHANGED <<database, ret, hist, clock>>

\* a save that puts the new appointment after the appointments stored now
CreateAppointmentWrite_Merging(tab) ==
    /\ tabs[tab].pc = "createAppointment"
    /\ storage' = saveSchedulingData([Data EXCEPT !.appointments = Append(@, Frame(tab).appointment)])
    /\ ret' = Call("createAppointment", <<Frame(tab).appointmentData>>, Frame(tab).appointment)
    /\ hist' = Null
    /\ tabs' = Return(tab)
    /\ log' = Append(log, [tab |-> tab, step |-> "write", id |-> Frame(tab).appointment.id])
    /\ UNCHANGED <<database, nextId, clock>>

\* the rest of createAppointment: the data of the call replaces the stored
\* item and the appointment is returned
CreateAppointmentWrite(tab) ==
    /\ tabs[tab].pc = "createAppointment"
    /\ storage' = saveSchedulingData(Frame(tab).data)
    /\ ret' = Call("createAppointment", <<Frame(tab).appointmentData>>, Frame(tab).appointment)
    /\ hist' = Null
    /\ tabs' = Return(tab)
    /\ log' = Append(log, [tab |-> tab, step |-> "write", id |-> Frame(tab).appointment.id])
    /\ UNCHANGED <<database, nextId, clock>>

\* getAvailableTimeSlots up to its loop: the schedule of the day and the
\* duration of the service are read, and [] is returned when the shop is
\* closed; reads is the set of stored data the call has read so far
GetAvailableTimeSlotsBegin(tab, date, serviceId, vehicleYear) ==
    LET args     == <<date, serviceId, vehicleYear>>
        schedule == getShopScheduleForDay(Data, date)
        open     == SplitTime(schedule[1].open_time)
        close    == SplitTime(schedule[1].close_time)
    IN  /\ tabs[tab].pc = "idle"
        /\ storage' = AfterGetSchedulingData(storage)
        /\ IF ShopClosed(schedule)
           THEN /\ ret' = Call("getAvailableTimeSlots", args, <<>>)
                /\ tabs' = tabs
           ELSE /\ ret' = ret
                /\ tabs' = [tabs EXCEPT
                              ![tab].pc = "getAvailableTimeSlots",
                              ![tab].frame =
                                 << [ args            |-> args,
                                      schedule        |-> schedule[1],
                                      serviceDuration |-> calculateServiceDuration(Data, serviceId, vehicleYear),
                                      endTime         |-> SetHours(date, close[1], close[2]),
                                      currentSlot     |-> SetHours(date, open[1], open[2]),
                                      slots           |-> <<>>,
                                      reads           |-> {Data} ] >>]
        /\ UNCHANGED <<database, nextId, hist, clock, log>>

\* one turn of the loop of getAvailableTimeSlots: the slots are returned when
\* the loop ends; otherwise one slot is built, checkAppointmentConflict
\* reading the stored data again unless the slot is in the lunch break
GetAvailableTimeSlotsStep(tab) ==
    LET f       == Frame(tab)
        slotEnd == SlotEnd(f.currentSlot, f.serviceDuration)
        lunch   == LunchConflict(f.schedule, f.currentSlot, slotEnd)
    IN  /\ tabs[tab].pc = "getAvailableTimeSlots"
        /\ IF ~(f.currentSlot < f.endTime) \/ PastClosing(slotEnd, f.endTime)
           THEN /\ ret' = Call("getAvailableTimeSlots", f.args, f.slots)
                /\ tabs' = Return(tab)
                /\ storage' = storage
           ELSE /\ ret' = ret
                /\ storage' = IF lunch THEN storage ELSE AfterGetSchedulingData(storage)
                /\ tabs' = [tabs EXCEPT ![tab].frame =
                              << [f EXCEPT
                                    !.currentSlot = NextSlot(@),
                                    !.slots = Append(@, MakeSlot(Data, f.schedule, f.currentSlot,
                                                                 slotEnd, f.args[2])),
                                    !.reads = IF lunch THEN @ ELSE @ \cup {Data}] >>]
        /\ UNCHANGED <<database, nextId, hist, clock, log>>

\* the technician of the dashboard
currentTechId == "tech-001"

\* loadJobs with the 'assigned' tab and the status filter 'all': the work
\* orders, the latest first, without those assigned to another technician
\* and those whose customer or vehicle is not stored
LoadedJobs(data) ==
    SelectSeq(getWorkOrders(data),
              LAMBDA wo :
                  LET assigned == Opt(wo, "assigned_tech")
                      customer == Opt(wo, "customer_id")
                      vehicle  == Opt(wo, "vehicle_id")
                  IN  /\ ~(assigned # Undefined /\ assigned[1] # "" /\ assigned[1] # currentTechId)
                      /\ customer # Undefined /\ getCustomer(data, customer[1]) # Null
                      /\ vehicle # Undefined /\ getVehicle(data, vehicle[1]) # Null)

\* the dashboard of the tab loads its jobs
LoadJobs(tab) ==
    /\ tabs[tab].pc = "idle"
    /\ database' = AfterGetStorageData(database)
    /\ tabs' = [tabs EXCEPT ![tab].jobs = LoadedJobs(Db)]
    /\ UNCHANGED <<storage, nextId, ret, hist, clock, log>>

\* the job card of the work order, as the dashboard of the tab shows it, has
\* one of the statuses
CardShows(tab, workOrderId, statuses) ==
    \E i \in 1..Len(tabs[tab].jobs) :
        /\ tabs[tab].jobs[i].id = workOrderId
        /\ tabs[tab].jobs[i].status \in statuses

\* a handler of the dashboard up to browserDatabase.clearData(): the data is
\* exported, the work order is changed in the exported data and the stored
\* item is removed; nothing more is done when the work order is not found
ClearData(tab, handler, workOrderId, changes) ==
    LET index == FindIndex(Db.work_orders, LAMBDA wo : wo.id = workOrderId)
    IN  /\ tabs[tab].pc = "idle"
        /\ IF index = 0
           THEN /\ database' = AfterGetStorageData(database)
                /\ tabs' = tabs
                /\ ret' = Call(handler, <<workOrderId>>, Null)
           ELSE /\ database' = NoData
                /\ tabs' = [tabs EXCEPT
                              ![tab].pc = "setItem",
                              ![tab].frame =
                                 << [ handler     |-> handler,
                                      workOrderId |-> workOrderId,
                                      old         |-> database,
                                      data        |-> [Db EXCEPT !.work_orders[index] =
                                                          Merge(@, changes)] ] >>]
                /\ ret' = ret
        /\ UNCHANGED <<storage, nextId, hist, clock, log>>

\* Start Job, a button of the card of a pending work order
HandleStartJob(tab, workOrderId) ==
    /\ CardShows(tab, workOrderId, {"pending"})
    /\ ClearData(tab, "handleStartJob", workOrderId,
                 [ status |-> "in_progress", assigned_tech |-> <<currentTechId>>,
                   started_at |-> <<clock>>, updated_at |-> clock ])

\* Request Estimate, a button of the card of a work order in progress
HandleRequestEstimate(tab, workOrderId) ==
    /\ CardShows(tab, workOrderId, {"in_progress"})
    /\ ClearData(tab, "handleRequestEstimate", workOrderId,
                 [ status |-> "awaiting_approval", updated_at |-> clock ])

\* Mark Complete, a button of the card of a work order in progress or approved
HandleCompleteJob(tab, workOrderId) ==
    /\ CardShows(tab, workOrderId, {"in_progress", "approved"})
    /\ ClearData(tab, "handleCompleteJob", workOrderId,
                 [ status |-> "completed", completed_at |-> <<clock>>, updated_at |-> clock ])

\* the rest of a handler: localStorage.setItem of the exported data, and
\* loadJobs
SetItem(tab) ==
    /\ tabs[tab].pc = "setItem"
    /\ database' = saveStorageData(Frame(tab).data)
    /\ tabs' = [Return(tab) EXCEPT ![tab].jobs = LoadedJobs(Frame(tab).data)]
    /\ ret' = Call(Frame(tab).handler, <<Frame(tab).workOrderId>>, Null)
    /\ UNCHANGED <<storage, nextId, hist, clock, log>>

\* the handler does not get to its setItem: the tab is closed, or setItem
\* throws and the handler logs the error
Interrupt(tab) ==
    /\ tabs[tab].pc = "setItem"
    /\ tabs' = Return(tab)
    /\ ret' = Call(Frame(tab).handler, <<Frame(tab).workOrderId>>, Throw("interrupted"))
    /\ UNCHANGED <<storage, database, nextId, hist, clock, log>>

\* CheckInForm.handleAppointmentSelect: the customer picks one of the slots
\* the scheduler offers as available for the service on the date
HandleAppointmentSelect(tab, serviceId, date, vehicleYear, i) ==
    LET slots == getAvailableTimeSlots(Data, date, serviceId, vehicleYear)
    IN  /\ tabs[tab].pc = "idle"
        /\ i \in 1..Len(slots)
        /\ slots[i].available
        /\ storage' = AfterGetSchedulingData(storage)
        /\ tabs' = [tabs EXCEPT ![tab].selectedAppointment =
                      << [ service  |-> [serviceId |-> serviceId],
                           date     |-> date,
                           timeSlot |-> slots[i] ] >>]
        /\ UNCHANGED <<database, nextId, ret, hist, clock, log>>

\* the sessionStorage item 'pendingAppointment' CheckInForm.handleSubmit
\* writes for the appointment selected
PendingAppointment(selectedAppointment, formData) ==
    [ customer_id     |-> "temp",
      service_type    |-> selectedAppointment.service.serviceId,
      scheduled_start |-> selectedAppointment.timeSlot.start,
      scheduled_end   |-> selectedAppointment.timeSlot.end,
      status          |-> "scheduled",
      priority        |-> "normal",
      customer_notes  |-> Opt(formData.service, "customer_concern"),
      created_by      |-> "customer" ]

\* CheckInForm.handleSubmit: the appointment selected, when there is one, is
\* put into sessionStorage, and the form is handed to
\* App.handleCheckInSubmit, which processes the check-in
HandleSubmit(tab, formData) ==
    LET outcome  == processCustomerCheckIn(formData)
        selected == tabs[tab].selectedAppointment
    IN  /\ tabs[tab].pc = "idle"
        /\ tabs' = IF selected = Null THEN tabs
                   ELSE [tabs EXCEPT ![tab].pendingAppointment =
                            << PendingAppointment(selected[1], formData) >>]
        /\ database' = saveStorageData(outcome.data)
        /\ nextId' = outcome.nextId
        /\ ret' = Call("processCustomerCheckIn", <<formData>>, outcome.checkIn)
        /\ UNCHANGED <<storage, hist, clock, log>>

----------------------------------------------------------------------------
(* Specification of the slot engine *)

Init ==
    /\ storage = NoData
    /\ database = NoData
    /\ nextId = 0
    /\ ret = Call("new", <<>>, Null)
    /\ hist = Null
    /\ clock = 0
    /\ tabs = [t \in Tabs |-> IdleTab]
    /\ log = <<>>

Next ==
    \/ \E date \in Dates, request \in SlotRequests :
          GetAvailableTimeSlots(date, request[1], request[2])
    \/ \E appointmentData \in SlotAppointmentData : CreateAppointment(appointmentData)
    \/ \E n \in 1..(MaxAppointments + 1), updates \in SlotAppointmentUpdates :
          UpdateAppointment(Uuid(n), updates)
    \/ \E c \in SlotScheduleChanges : UpdateShopSchedule(c[1], c[2])
    \/ \E c \in SlotDurationChanges : UpdateServiceDuration(c[1], c[2])

Spec == Init /\ [][Next]_vars

----------------------------------------------------------------------------
(* Specification of the duration computation *)

DurationChanges ==
    { <<"oil-change", [estimated_minutes |-> 50]>>,
      <<"oil-change", [complexity_multiplier |-> 11]>>,
      <<"brake-pads", [estimated_minutes |-> 60]>>,
      <<"brake-pads", [complexity_multiplier |-> 15]>>,
      <<"brake-pads", [complexity_multiplier |-> 11]>>,
      <<"detailing", [estimated_minutes |-> 50]>> }

NextDuration ==
    \/ \E serviceId \in ServiceIds, vehicleYear \in VehicleYears :
          CalculateServiceDuration(serviceId, vehicleYear)
    \/ \E c \in DurationChanges : UpdateServiceDuration(c[1], c[2])

SpecDuration == Init /\ [][NextDuration]_vars

----------------------------------------------------------------------------
(* Specification of the conflict detector *)

\* times of Monday morning: 08:30, 09:00, 09:30, 10:00, 10:30
ConflictTimes == { Monday + 510, Monday + 540, Monday + 570, Monday + 600, Monday + 630 }

\* appointments 09:00-10:00, 10:00-10:30 and the malformed 10:00-09:30
ConflictAppointmentData ==
    { [scheduled_start |-> iv[1], scheduled_end |-> iv[2], status |-> st] :
        iv \in { <<Monday + 540, Monday + 600>>, <<Monday + 600, Monday + 630>>,
                 <<Monday + 600, Monday + 570>> },
        st \in { "scheduled", "cancelled" } }

ConflictAppointmentUpdates ==
    { [status |-> "cancelled"], [status |-> "completed"],
      [scheduled_start |-> Monday + 510, scheduled_end |-> Monday + 540] }

NextConflict ==
    \/ \E startTime \in ConflictTimes, endTime \in ConflictTimes :
          CheckAppointmentConflict(startTime, endTime)
    \/ \E appointmentData \in ConflictAppointmentData : CreateAppointment(appointmentData)
    \/ \E n \in 1..(MaxAppointments + 1), updates \in ConflictAppointmentUpdates :
          UpdateAppointment(Uuid(n), updates)

SpecConflict == Init /\ [][NextConflict]_vars

----------------------------------------------------------------------------
(* Specification of the roster and the slot engine *)

\* technicians deactivated or deleted: two of the seeded ones and the
\* first identifiers uuidv4() hands out
RosterTechIds == { "tech-001", "tech-003", Uuid(1), Uuid(2) }

RosterAppointmentData ==
    { [scheduled_start |-> Monday + 690, scheduled_end |-> Monday + 750, status |-> "scheduled"] }

NextRoster ==
    \/ CreatedTechs < MaxCreatedTechs /\ CreateTechProfile([active |-> TRUE])
    \/ \E techId \in RosterTechIds : UpdateTechProfile(techId, [active |-> FALSE])
    \/ \E techId \in RosterTechIds : DeleteTechProfile(techId)
    \/ \E appointmentData \in RosterAppointmentData : CreateAppointment(appointmentData)
    \/ \E date \in Dates : GetAvailableTimeSlots(date, "oil-change", Undefined)

SpecRoster == Init /\ [][NextRoster]_vars

----------------------------------------------------------------------------
(* Specification of the workload of the technicians *)

MaxWorkOrders == 4

\* the identifiers of the stored work orders, and one that is not stored
WorkOrderIds == { Db.work_orders[i].id : i \in 1..Len(Db.work_orders) } \cup { "order-x" }

WorkloadOrderData ==
    { [ vehicle_id |-> <<"vehicle-x">>, status |-> "pending",
        customer_concern |-> <<"Electrical fault">> ] }

\* a technician of rate 40 with three certifications and one specialty
WorkloadTechData ==
    { [ active |-> TRUE, hourly_rate |-> <<40>>,
        certifications |-> << <<"ASE A6", "ASE A8", "ASE L1">> >>,
        specialties |-> << <<"electrical">> >> ] }

NextWorkload ==
    \/ /\ Len(Db.work_orders) < MaxWorkOrders
       /\ \E workOrderData \in WorkloadOrderData : CreateWorkOrder(workOrderData)
    \/ \E id \in WorkOrderIds, techId \in { "tech-001", "tech-002" } :
          AssignTechToWorkOrder(id, techId)
    \/ \E id \in { WorkOrderUuid(1), WorkOrderUuid(2) } : StartJob(id, "tech-001")
    \/ \E id \in { WorkOrderUuid(1), "order-x" } : CompleteJob(id)
    \/ /\ CreatedTechs < MaxCreatedTechs
       /\ \E techData \in WorkloadTechData : CreateTechProfile(techData)
    \/ \E id \in { WorkOrderUuid(1), "order-x" } : SuggestTechForWorkOrder(id)

SpecWorkload == Init /\ [][NextWorkload]_vars

----------------------------------------------------------------------------
(* Specification of the ranking without candidates *)

SeededTechIds == { "tech-001", "tech-002", "tech-003" }

NextNoCandidate ==
    \/ /\ Len(Db.work_orders) < MaxWorkOrders
       /\ \E workOrderData \in WorkloadOrderData : CreateWorkOrder(workOrderData)
    \/ \E techId \in SeededTechIds : UpdateTechProfile(techId, [active |-> FALSE])
    \/ DeleteTechProfile("tech-002")
    \/ \E id \in WorkOrderIds : SuggestTechForWorkOrder(id)

SpecNoCandidate == Init /\ [][NextNoCandidate]_vars

----------------------------------------------------------------------------
(* Specification of the scoring rules *)

MaxRankedOrders == 1

RankingOrderData ==
    { [ vehicle_id |-> <<"vehicle-x">>, status |-> "pending",
        customer_concern |-> <<"Brakes SQUEAKING, bumpy ride">> ],
      [ vehicle_id |-> <<"vehicle-x">>, status |-> "pending",
        customer_concern |-> <<"Car pulls when I stop">> ],
      [ vehicle_id |-> <<"vehicle-x">>, status |-> "pending",
        customer_concern |-> <<"Annual safety inspection">> ],
      [ vehicle_id |-> <<"vehicle-x">>, status |-> "pending",
        customer_concern |-> <<"Oil change">>,
        description |-> <<"URGENT: customer is waiting">> ],
      [ vehicle_id |-> <<"vehicle-x">>, status |-> "pending",
        customer_concern |-> <<"Won't start, battery dead">> ],
      [ vehicle_id |-> <<"vehicle-x">>, status |-> "pending" ] }

\* technicians without rate, of rate 0, 20, 25, 30 and 35, without
\* specialties, with an empty list and with one or two specialties
RankingTechData ==
    { [ active |-> TRUE ],
      [ active |-> TRUE, hourly_rate |-> <<0>>, specialties |-> << <<>> >> ],
      [ active |-> TRUE, hourly_rate |-> <<20>>, specialties |-> << <<"Brake">> >>,
        certifications |-> << <<"ASE A5">> >> ],
      [ active |-> TRUE, hourly_rate |-> <<25>> ],
      [ active |-> TRUE, hourly_rate |-> <<30>>, specialties |-> << <<"hvac", "tire">> >> ],
      [ active |-> TRUE, hourly_rate |-> <<35>>, certifications |-> << <<>> >> ] }

NextRanking ==
    \/ /\ Len(Db.work_orders) < MaxRankedOrders
       /\ \E workOrderData \in RankingOrderData : CreateWorkOrder(workOrderData)
    \/ /\ CreatedTechs < MaxCreatedTechs
       /\ \E techData \in RankingTechData : CreateTechProfile(techData)
    \/ \E id \in WorkOrderIds : SuggestTechForWorkOrder(id)

SpecRanking == Init /\ [][NextRanking]_vars

----------------------------------------------------------------------------
(* Specification of the ranking of a large team *)

MaxTeamTechs == 3
MaxVehicles == 1

\* a work order for the first vehicle created
TeamOrderData ==
    { [ vehicle_id |-> <<VehicleUuid(1)>>, status |-> "pending",
        customer_concern |-> <<"Electrical fault">> ] }

TeamVehicleData == { [ year |-> <<2005>> ], [ year |-> <<2010>> ], [ make |-> "Ford" ] }

TeamTechData ==
    { [ active |-> TRUE ],
      [ active |-> TRUE, hourly_rate |-> <<45>>, specialties |-> << <<"brake">> >>,
        certifications |-> << <<"ASE A1", "ASE A5", "ASE A8">> >> ],
      [ active |-> TRUE, hourly_rate |-> <<50>>, specialties |-> << <<"electrical">> >>,
        certifications |-> << <<"ASE A6", "ASE A7", "ASE A8", "ASE L1">> >> ] }

NextTeam ==
    \/ /\ Len(Db.work_orders) < MaxRankedOrders
       /\ \E workOrderData \in TeamOrderData : CreateWorkOrder(workOrderData)
    \/ /\ Len(Db.vehicles) < MaxVehicles
       /\ \E vehicleData \in TeamVehicleData : CreateVehicle(vehicleData)
    \/ /\ CreatedTechs < MaxTeamTechs
       /\ \E techData \in TeamTechData : CreateTechProfile(techData)
    \/ UpdateTechProfile("tech-003", [active |-> FALSE])
    \/ \E id \in WorkOrderIds : SuggestTechForWorkOrder(id)

SpecTeam == Init /\ [][NextTeam]_vars

----------------------------------------------------------------------------
(* Specification of the appointment updates *)

MaxClock == 1

\* time passes
Tick ==
    /\ clock < MaxClock
    /\ clock' = clock + 1
    /\ UNCHANGED <<storage, database, nextId, ret, hist, tabs, log>>

\* the identifiers of the stored appointments, and one that is not stored
AppointmentIds ==
    { Data.appointments[i].id : i \in 1..Len(Data.appointments) } \cup { "appointment-x" }

UpdatedAppointmentData ==
    { [scheduled_start |-> Monday + 540, scheduled_end |-> Monday + 600, status |-> "scheduled"] }

\* a cancellation, and a move to 10:00-11:00 with a note
UpdatedAppointmentUpdates ==
    { [status |-> "cancelled"],
      [scheduled_start |-> Monday + 600, scheduled_end |-> Monday + 660,
       internal_notes |-> "moved by the customer"] }

NextUpdate ==
    \/ Tick
    \/ \E appointmentData \in UpdatedAppointmentData : CreateAppointment(appointmentData)
    \/ \E id \in AppointmentIds, updates \in UpdatedAppointmentUpdates :
          UpdateAppointment(id, updates)
    \/ UpdateServiceDuration("oil-change", [estimated_minutes |-> 50])

SpecUpdate == Init /\ [][NextUpdate]_vars

----------------------------------------------------------------------------
(* Specification of the cancellations *)

\* candidate intervals: Monday 09:00-10:00 and 11:30-12:00
CancelConflictRequests == { <<Monday + 540, Monday + 600>>, <<Monday + 690, Monday + 720>> }

NextCancel ==
    \/ \E appointmentData \in SlotAppointmentData : CreateAppointment(appointmentData)
    \/ \E id \in AppointmentIds : UpdateAppointment(id, [status |-> "cancelled"])
    \/ \E r \in CancelConflictRequests : CheckAppointmentConflict(r[1], r[2])
    \/ GetAvailableTimeSlots(Monday + 615, "oil-change", Undefined)

SpecCancel == Init /\ [][NextCancel]_vars

----------------------------------------------------------------------------
(* Specification of appointment creation *)

\* appointments asked for on Monday: 09:00-10:00, 12:00-13:00 (the lunch
\* hour) and 12:30-17:30 (from lunch until after closing at 17:00)
CreatedAppointmentData ==
    { [scheduled_start |-> iv[1], scheduled_end |-> iv[2], status |-> st] :
        iv \in { <<Monday + 540, Monday + 600>>, <<Monday + 720, Monday + 780>>,
                 <<Monday + 750, Monday + 1050>> },
        st \in { "scheduled", "cancelled" } }

NextCreate ==
    \/ \E appointmentData \in CreatedAppointmentData : CreateAppointment(appointmentData)
    \/ \E request \in SlotRequests :
          GetAvailableTimeSlots(Monday, request[1], request[2])

SpecCreate == Init /\ [][NextCreate]_vars

----------------------------------------------------------------------------
(* Vocabulary of the properties *)

\* the minute of the day an "HH:MM" string names
Minutes(s) == (s[1] * 10 + s[2]) * 60 + s[3] * 10 + s[4]

MinuteOfDay(t) == t % MinutesPerDay
Midnight(t) == t - MinuteOfDay(t)

Elements(s) == { s[i] : i \in 1..Len(s) }

IsSlotsCall == ret.op = "getAvailableTimeSlots"
IsConflictCall == ret.op = "checkAppointmentConflict"
IsDurationCall == ret.op = "calculateServiceDuration"

\* the stored schedules of the weekday of a date
SchedulesOfDay(date) == { s \in Elements(Data.shop_schedules) : s.day_of_week = GetDay(date) }

\* the schedule a slots call used, when its result is not empty
CallSchedule == CHOOSE s \in SchedulesOfDay(ret.args[1]) : TRUE

\* the duration a slots call asked for
CallDuration == calculateServiceDuration(Data, ret.args[2], ret.args[3])

ActiveAppointments == { a \in Elements(Data.appointments) : a.status # "cancelled" }
CancelledAppointments == { a \in Elements(Data.appointments) : a.status = "cancelled" }

\* half-open interval overlap of [s, e) with an appointment
Intersects(s, e, a) == s < a.scheduled_end /\ e > a.scheduled_start

\* the slot overlaps the lunch window of the schedule, in minutes of the day
InLunch(schedule, slot) ==
    /\ schedule.lunch_start # Undefined
    /\ schedule.lunch_end # Undefined
    /\ MinuteOfDay(slot.start) < Minutes(schedule.lunch_end)
    /\ MinuteOfDay(slot.end) > Minutes(schedule.lunch_start)

----------------------------------------------------------------------------
(* Specification of two tabs creating appointments *)

NextWriters ==
    \/ \E tab \in Tabs, appointmentData \in SlotAppointmentData :
          CreateAppointmentRead(tab, appointmentData)
    \/ \E tab \in Tabs : CreateAppointmentWrite(tab)
    \/ \E request \in SlotRequests :
          GetAvailableTimeSlots(Monday, request[1], request[2])

SpecWriters == Init /\ [][NextWriters]_vars

----------------------------------------------------------------------------
(* Specification of a slot query of one tab while appointments are created *)
(* by another writer                                                        *)

\* appointments of Sunday: 10:00-11:00 and 13:00-14:00
QueriedAppointmentData ==
    { [scheduled_start |-> Sunday + 600, scheduled_end |-> Sunday + 660, status |-> "scheduled"],
      [scheduled_start |-> Sunday + 780, scheduled_end |-> Sunday + 840, status |-> "scheduled"] }

NextQuery ==
    \/ GetAvailableTimeSlotsBegin("tab-1", Sunday, "oil-change", Undefined)
    \/ GetAvailableTimeSlotsStep("tab-1")
    \/ \E appointmentData \in QueriedAppointmentData : CreateAppointment(appointmentData)

SpecQuery == Init /\ [][NextQuery]_vars

----------------------------------------------------------------------------
(* Specification of the check-ins *)

MaxCheckIns == 2
MaxUuids == 6

\* the check-in forms submitted: a customer with a VIN, a mileage and a
\* concern, and another customer who gives neither VIN nor mileage
CheckInForms ==
    { [ customer |-> [name |-> "Ada", phone |-> "555-0100"],
        vehicle  |-> [vin |-> <<"1HGCM82633A004352">>, year |-> <<2015>>],
        service  |-> [mileage |-> <<60000>>, customer_concern |-> <<"Brake noise">>] ],
      [ customer |-> [name |-> "Bo", phone |-> "555-0101"],
        vehicle  |-> [make |-> <<"Ford">>],
        service  |-> [customer_concern |-> <<"Oil change">>] ] }

\* the identifiers of the stored check-ins, and one no check-in has
CheckInIds == { Db.check_ins[i].id : i \in 1..Len(Db.check_ins) } \cup { "checkin-x" }

NextCheckIn ==
    \/ \E formData \in CheckInForms :
          /\ Len(Db.check_ins) < MaxCheckIns
          /\ nextId + 3 <= MaxUuids
          /\ ProcessCustomerCheckIn(formData)
    \/ \E checkInId \in CheckInIds :
          nextId < MaxUuids /\ CreateWorkOrderFromCheckIn(checkInId)
    \/ \E checkInId \in CheckInIds :
          nextId < MaxUuids /\ CreateWorkOrderFromCheckInBySteps(checkInId)
    \/ Tick

SpecCheckIn == Init /\ [][NextCheckIn]_vars

----------------------------------------------------------------------------
(* Specification of the technician dashboards *)

\* the check-in form of the customer of the dashboards
DashboardForm ==
    [ customer |-> [name |-> "Ada", phone |-> "555-0100"],
      vehicle  |-> [vin |-> <<"1HGCM82633A004352">>, year |-> <<2015>>],
      service  |-> [mileage |-> <<60000>>, customer_concern |-> <<"Brake noise">>] ]

\* the identifiers of the stored work orders
StoredWorkOrderIds == { Db.work_orders[i].id : i \in 1..Len(Db.work_orders) }

NextDashboard ==
    \/ /\ Len(Db.check_ins) < MaxCheckIns - 1
       /\ nextId + 3 <= MaxUuids
       /\ ProcessCustomerCheckIn(DashboardForm)
    \/ \E i \in 1..Len(getPendingCheckIns(Db)) :
          nextId < MaxUuids /\ CreateWorkOrderFromCheckIn(getPendingCheckIns(Db)[i].id)
    \/ \E tab \in Tabs : LoadJobs(tab)
    \/ \E tab \in Tabs, workOrderId \in StoredWorkOrderIds : HandleStartJob(tab, workOrderId)
    \/ \E tab \in Tabs, workOrderId \in StoredWorkOrderIds : HandleRequestEstimate(tab, workOrderId)
    \/ \E tab \in Tabs, workOrderId \in StoredWorkOrderIds : HandleCompleteJob(tab, workOrderId)
    \/ \E tab \in Tabs : SetItem(tab)
    \/ \E tab \in Tabs : Interrupt(tab)

SpecDashboard == Init /\ [][NextDashboard]_vars

----------------------------------------------------------------------------
(* Specification of the assignments and the roster *)

MaxAssignedOrders == 1

\* the technicians asked for: two seeded ones and one that does not exist
AssignedTechIds == { "tech-001", "tech-002", "tech-x" }

\* the work orders asked for: the first one created and one that does not exist
AssignedOrderIds == { WorkOrderUuid(1), "order-x" }

NextAssign ==
    \/ /\ Len(Db.work_orders) < MaxAssignedOrders
       /\ CreateWorkOrder([status |-> "pending", customer_concern |-> "Brake noise"])
    \/ \E workOrderId \in AssignedOrderIds, techId \in AssignedTechIds :
          AssignTechToWorkOrder(workOrderId, techId)
    \/ \E techId \in AssignedTechIds : UpdateTechProfile(techId, [active |-> FALSE])
    \/ \E techId \in AssignedTechIds : DeleteTechProfile(techId)

SpecAssign == Init /\ [][NextAssign]_vars

----------------------------------------------------------------------------
(* Specification of the check-in form with its scheduler *)

NextForm ==
    \/ \E i \in 1..3 :
          HandleAppointmentSelect("tab-1", "oil-change", Sunday, Undefined, i)
    \/ /\ Len(Db.check_ins) < MaxCheckIns
       /\ nextId + 3 <= MaxUuids
       /\ HandleSubmit("tab-1", DashboardForm)
    \/ GetAvailableTimeSlots(Sunday, "oil-change", Undefined)

SpecForm == Init /\ [][NextForm]_vars

----------------------------------------------------------------------------
(* C1 *)

\* C1: getAvailableTimeSlots returns the empty sequence whenever no schedule
\* is stored for the weekday of the date or that schedule is closed, for
\* every service, vehicle year and set of appointments.
C1_ClosedDayHasNoSlots ==
    IsSlotsCall =>
        LET S == SchedulesOfDay(ret.args[1])
        IN  (S = {} \/ \E s \in S : s.is_closed) => ret.value = <<>>

\* a call for a closed day while an appointment is stored
C1_Witness ==
    /\ IsSlotsCall
    /\ \E s \in SchedulesOfDay(ret.args[1]) : s.is_closed
    /\ Data.appointments # <<>>
    /\ ret.value = <<>>

----------------------------------------------------------------------------
(* C2 *)

\* the exact ceiling of estimated_minutes times a multiplier given in tenths
ExactCeil(est, mult10) == (est * mult10 + 9) \div 10

\* the duration the specification gives
ExpectedDuration(serviceId, vehicleYear) ==
    LET configs == { sd \in Elements(Data.service_durations) : sd.service_id = serviceId }
    IN  IF configs = {} THEN 60
        ELSE LET sd == CHOOSE c \in configs : TRUE
             IN  IF vehicleYear # Undefined /\ vehicleYear[1] < 2010
                 THEN ExactCeil(sd.estimated_minutes, sd.complexity_multiplier)
                 ELSE sd.estimated_minutes

\* C2: calculateServiceDuration returns 60 for a service without
\* configuration, and otherwise estimated_minutes, multiplied by
\* complexity_multiplier and rounded up exactly when a vehicle year is
\* supplied and is below 2010.
C2_DurationAsSpecified ==
    IsDurationCall => ret.value = ExpectedDuration(ret.args[1], ret.args[2])

----------------------------------------------------------------------------
(* C3 *)

\* C3: every slot getAvailableTimeSlots returns, available or not, is as
\* long as calculateServiceDuration says for the service and vehicle year.
C3_SlotLengthIsDuration ==
    IsSlotsCall =>
        \A i \in 1..Len(ret.value) : ret.value[i].end - ret.value[i].start = CallDuration

\* a call for an older vehicle (45 * 1.2 = 54 minutes) with available and
\* unavailable slots
C3_Witness ==
    /\ IsSlotsCall
    /\ ret.args[3] = <<2005>>
    /\ CallDuration = 54
    /\ \E i \in 1..Len(ret.value) : ret.value[i].available
    /\ \E i \in 1..Len(ret.value) : ~ret.value[i].available

----------------------------------------------------------------------------
(* C4 *)

\* the candidates k whose interval ends by closing time
FittingSteps(open, close, duration) == { k \in 0..47 : open + 30 * k + duration <= close }

\* C4: on an open day the slot starts are open_time + 30 * k for exactly the
\* k whose candidate ends by close_time, in ascending order: no slot ends
\* after close_time and no fitting candidate is left out.
C4_SlotsAreTheFittingCandidates ==
    (IsSlotsCall /\ SchedulesOfDay(ret.args[1]) # {} /\ ~CallSchedule.is_closed) =>
        LET open  == Midnight(ret.args[1]) + Minutes(CallSchedule.open_time)
            close == Midnight(ret.args[1]) + Minutes(CallSchedule.close_time)
            K     == FittingSteps(open, close, CallDuration)
        IN  /\ Len(ret.value) = Cardinality(K)
            /\ \A i \in 1..Len(ret.value) :
                  /\ (i - 1) \in K
                  /\ ret.value[i].start = open + 30 * (i - 1)
                  /\ ret.value[i].end <= close

\* a call whose next candidate after the last slot started before closing
\* time and was left out, and in which an unavailable slot is listed
C4_Witness ==
    /\ IsSlotsCall
    /\ ret.value # <<>>
    /\ ret.value[Len(ret.value)].start + 30
          < Midnight(ret.args[1]) + Minutes(CallSchedule.close_time)
    /\ \E i \in 1..Len(ret.value) : ~ret.value[i].available

----------------------------------------------------------------------------
(* C5 *)

\* C5: a slot carries reason "lunch" (and is unavailable) if and only if the
\* schedule has a lunch window and slotStart < lunch_end and
\* slotEnd > lunch_start; the test comes first, so a slot over both the lunch
\* window and an appointment says "lunch".
C5_LunchReason ==
    IsSlotsCall =>
        \A i \in 1..Len(ret.value) :
            LET slot == ret.value[i]
            IN  /\ (slot.reason = "lunch") <=> InLunch(CallSchedule, slot)
                /\ slot.reason = "lunch" => ~slot.available

\* a call with a slot over both the lunch window and an appointment that is
\* not cancelled, and a slot that ends exactly at lunch_start
C5_Witness ==
    /\ IsSlotsCall
    /\ \E i \in 1..Len(ret.value) :
          /\ ret.value[i].reason = "lunch"
          /\ \E a \in ActiveAppointments : Intersects(ret.value[i].start, ret.value[i].end, a)
    /\ \E i \in 1..Len(ret.value) :
          /\ CallSchedule.lunch_start # Undefined
          /\ MinuteOfDay(ret.value[i].end) = Minutes(CallSchedule.lunch_start)
          /\ ret.value[i].reason # "lunch"

----------------------------------------------------------------------------
(* C6 *)

\* C6: a slot outside the lunch window is unavailable with reason "booked"
\* if and only if it overlaps a stored appointment that is not cancelled;
\* otherwise it is available and has no reason.
C6_BookedReason ==
    IsSlotsCall =>
        \A i \in 1..Len(ret.value) :
            LET slot == ret.value[i]
            IN  ~InLunch(CallSchedule, slot) =>
                    IF \E a \in ActiveAppointments : Intersects(slot.start, slot.end, a)
                    THEN ~slot.available /\ slot.reason = "booked"
                    ELSE slot.available /\ slot.reason = "undefined"

\* a call with a booked slot, an available slot that touches an appointment
\* and an available slot that a cancelled appointment overlaps
C6_Witness ==
    /\ IsSlotsCall
    /\ \E i \in 1..Len(ret.value) : ret.value[i].reason = "booked"
    /\ \E i \in 1..Len(ret.value) :
          /\ ret.value[i].available
          /\ \E a \in ActiveAppointments : ret.value[i].end = a.scheduled_start
    /\ \E i \in 1..Len(ret.value) :
          /\ ret.value[i].available
          /\ \E a \in CancelledAppointments : Intersects(ret.value[i].start, ret.value[i].end, a)

----------------------------------------------------------------------------
(* C7 *)

\* a call on a day open 08:00-17:00 with lunch 12:00-13:00, for a service of
\* 30 minutes, with no appointment stored
C7_Scenario ==
    /\ IsSlotsCall
    /\ SchedulesOfDay(ret.args[1]) # {}
    /\ ~CallSchedule.is_closed
    /\ CallSchedule.open_time = HHMM(8, 0)
    /\ CallSchedule.close_time = HHMM(17, 0)
    /\ CallSchedule.lunch_start = HHMM(12, 0)
    /\ CallSchedule.lunch_end = HHMM(13, 0)
    /\ CallDuration = 30
    /\ Data.appointments = <<>>

\* the slot of the result that starts at minute m of the day matches P
SlotAt(m, P(_)) ==
    \E i \in 1..Len(ret.value) :
        ret.value[i].start = Midnight(ret.args[1]) + m /\ P(ret.value[i])

\* C7 as stated: in the scenario the result has a slot starting at 11:45
\* that is unavailable with reason "lunch" and ends at 12:15, and the slot
\* starting at 08:00 is available.
C7_SlotAtQuarterToTwelve ==
    C7_Scenario =>
        /\ SlotAt(705, LAMBDA slot : /\ ~slot.available
                                     /\ slot.reason = "lunch"
                                     /\ MinuteOfDay(slot.end) = 735)
        /\ SlotAt(480, LAMBDA slot : slot.available)

\* C7 amended: in the scenario no slot starts at 11:45; the slot starting at
\* 11:30 ends at 12:00 and is available, the slot starting at 12:00 ends at
\* 12:30 and is unavailable with reason "lunch", and the slot starting at
\* 08:00 is available.
C7_LunchSlotsOnTheHalfHour ==
    C7_Scenario =>
        /\ ~SlotAt(705, LAMBDA slot : TRUE)
        /\ SlotAt(690, LAMBDA slot : slot.available /\ MinuteOfDay(slot.end) = 720)
        /\ SlotAt(720, LAMBDA slot : /\ ~slot.available
                                     /\ slot.reason = "lunch"
                                     /\ MinuteOfDay(slot.end) = 750)
        /\ SlotAt(480, LAMBDA slot : slot.available)

\* the scenario, with its 18 slots from 08:00 to 16:30
C7_Witness == C7_Scenario /\ Len(ret.value) = 18

----------------------------------------------------------------------------
(* C8 *)

\* the ids of all technicians of the roster
RosterIds == { t.id : t \in Elements(Db.tech_profiles) }

\* C8 as stated: every available slot carries the ids of all technicians of
\* the roster.
C8_TechsAreTheRoster ==
    IsSlotsCall =>
        \A i \in 1..Len(ret.value) :
            ret.value[i].available => Elements(ret.value[i].available_techs) = RosterIds

\* C8 amended: every slot, available or not, carries the fixed list
\* tech-001, tech-002, whatever technicians were created, deactivated or
\* deleted before the call.
C8_TechsAreTheDefaultList ==
    IsSlotsCall =>
        \A i \in 1..Len(ret.value) :
            ret.value[i].available_techs = << "tech-001", "tech-002" >>

\* a call with available and unavailable slots after tech-001 was deleted
\* and a technician was created
C8_Witness ==
    /\ IsSlotsCall
    /\ \E i \in 1..Len(ret.value) : ret.value[i].available
    /\ \E i \in 1..Len(ret.value) : ~ret.value[i].available
    /\ "tech-001" \notin RosterIds
    /\ RosterIds \ { "tech-001", "tech-002", "tech-003" } # {}

----------------------------------------------------------------------------
(* C9 *)

----------------------------------------------------------------------------
(* C10 *)

\* C10: checkAppointmentConflict(start, end) returns a descriptor if and
\* only if some stored appointment that is not cancelled has
\* start < scheduled_end and end > scheduled_start.
C10_ConflictIffOverlap ==
    IsConflictCall =>
        ( ret.value # Null <=>
            \E a \in ActiveAppointments : Intersects(ret.args[1], ret.args[2], a) )

\* a check of an interval that touches an appointment that is not cancelled
\* and overlaps a cancelled one, answered with null
C10_Witness ==
    /\ IsConflictCall
    /\ ret.value = Null
    /\ ret.args[1] < ret.args[2]
    /\ \E a \in ActiveAppointments :
          /\ a.scheduled_start < a.scheduled_end
          /\ ret.args[1] = a.scheduled_end \/ ret.args[2] = a.scheduled_start
    /\ \E a \in CancelledAppointments : Intersects(ret.args[1], ret.args[2], a)

----------------------------------------------------------------------------
(* C11 *)

\* the position of an identifier in the order uuidv4() handed them out,
\* which is the order of the createAppointment calls
CreationOrder(id) == CHOOSE n \in 1..8 : Uuid(n) = id

\* the non-cancelled appointments overlapping the interval of a conflict call
OverlappingAppointments ==
    { a \in ActiveAppointments : Intersects(ret.args[1], ret.args[2], a) }

\* C11: when one or several non-cancelled appointments overlap the
\* candidate interval, checkAppointmentConflict reports exactly one conflict,
\* and its conflicting_appointment_id is the id of the overlapping
\* appointment created first, after any sequence of createAppointment and
\* updateAppointment calls.
C11_FirstCreatedIsReported ==
    (IsConflictCall /\ OverlappingAppointments # {}) =>
        LET first == CHOOSE a \in OverlappingAppointments :
                        \A b \in OverlappingAppointments :
                            CreationOrder(a.id) <= CreationOrder(b.id)
        IN  ret.value = << [ type |-> "double_booking",
                             conflicting_appointment_id |-> first.id ] >>

\* a conflict call whose interval two non-cancelled appointments overlap,
\* the earlier created of which has been updated before
C11_Witness ==
    /\ IsConflictCall
    /\ Cardinality(OverlappingAppointments) >= 2
    /\ \E a \in OverlappingAppointments :
          /\ a.status = "completed"
          /\ \A b \in OverlappingAppointments : CreationOrder(a.id) <= CreationOrder(b.id)

----------------------------------------------------------------------------
(* Vocabulary of the ranking properties *)

IsSuggestCall == ret.op = "suggestTechForWorkOrder"

\* the stored work orders with the identifier of the call
OrdersOfCall(call, db) ==
    { wo \in Elements(getStorageData(db).work_orders) : wo.id = call.args[1] }

\* the work order a suggestion was asked for, when its result is not empty
OrderOfCall == CHOOSE wo \in OrdersOfCall(ret, database) : TRUE

\* the technicians with active = true
ActiveTechsOf(db) == { t \in Elements(getStorageData(db).tech_profiles) : t.active }

\* the number of work orders assigned to the technician that are pending
\* or in progress
ActiveJobsOf(techId) ==
    Cardinality({ i \in 1..Len(Db.work_orders) :
                    /\ Opt(Db.work_orders[i], "assigned_tech") = <<techId>>
                    /\ Db.work_orders[i].status \in {"pending", "in_progress"} })

\* what each rule of the engine gives a returned technician for the work
\* order of the call
Contributions(e) ==
    [ workload       |-> WorkloadScore(e.workload.activeJobs),
      experience     |-> ExperienceScore(e),
      certifications |-> CertificationScore(e),
      specialties    |-> SpecialtyScore(e, OrderOfCall),
      vehicle        |-> VehicleScore(Db, e, OrderOfCall),
      urgency        |-> UrgencyScore(e, OrderOfCall) ]

Rules == { "workload", "experience", "certifications", "specialties", "vehicle", "urgency" }

RECURSIVE SumOver(_, _)
SumOver(f, S) ==
    IF S = {} THEN 0 ELSE LET x == CHOOSE y \in S : TRUE IN f[x] + SumOver(f, S \ {x})

\* the part of the score of a returned technician that one rule accounts
\* for: the score less the contributions of the other rules
ScoreOfRule(e, rule) == e.score - SumOver(Contributions(e), Rules \ {rule})

----------------------------------------------------------------------------
(* C12 *)

\* a suggestion step for an identifier no work order has, or while no
\* technician is active
NoCandidateStep ==
    /\ ret'.op = "suggestTechForWorkOrder"
    /\ OrdersOfCall(ret', database) = {} \/ ActiveTechsOf(database) = {}

\* C12: suggestTechForWorkOrder returns the empty sequence and does not
\* modify the store when no work order has the identifier or no technician
\* with active = true exists.
C12_NoCandidateStoreUntouched ==
    [][NoCandidateStep => (ret'.value = <<>> /\ database' = database)]_vars

\* C12, amended: suggestTechForWorkOrder returns the empty sequence when no
\* work order has the identifier or no technician with active = true
\* exists; the stored data is left as it is, except that a call on an empty
\* localStorage saves the initial data there.
C12_NoCandidateOnlySeeds ==
    [][NoCandidateStep =>
          /\ ret'.value = <<>>
          /\ database # NoData => database' = database
          /\ database = NoData => database' = <<initialData>>]_vars

\* a suggestion for a stored work order while technicians are stored and
\* none of them is active
C12_Witness ==
    /\ IsSuggestCall
    /\ OrdersOfCall(ret, database) # {}
    /\ Db.tech_profiles # <<>>
    /\ ActiveTechsOf(database) = {}
    /\ ret.value = <<>>

----------------------------------------------------------------------------
(* C13 *)

ClaimedWorkload(activeJobs) ==
    CASE activeJobs >= 4 -> 0 - 50
      [] activeJobs = 3 -> 0 - 30
      [] activeJobs = 2 -> 0 - 15
      [] activeJobs = 1 -> 0
      [] activeJobs = 0 -> 25

\* C13: the workload contribution to the score of a technician is -50 for
\* four or more active jobs, -30 for three, -15 for two, 0 for one and +25
\* for none, the active jobs being the work orders assigned to the
\* technician whose status is pending or in_progress.
C13_WorkloadContribution ==
    IsSuggestCall =>
        \A i \in 1..Len(ret.value) :
            LET e == ret.value[i]
            IN  /\ e.workload.activeJobs = ActiveJobsOf(e.id)
                /\ ScoreOfRule(e, "workload") = ClaimedWorkload(ActiveJobsOf(e.id))

\* a suggestion while one technician has four active jobs, one of them in
\* progress, and another technician has none
C13_Witness ==
    /\ IsSuggestCall
    /\ \E i, j \in 1..Len(ret.value) :
          /\ ret.value[i].workload.activeJobs = 4
          /\ ret.value[j].workload.activeJobs = 0
          /\ \E k \in 1..Len(Db.work_orders) :
                /\ Db.work_orders[k].status = "in_progress"
                /\ Db.work_orders[k].assigned_tech = <<ret.value[i].id>>

----------------------------------------------------------------------------
(* C14 *)

ClaimedExperience(e) ==
    LET hourly_rate == Opt(e, "hourly_rate")
    IN  IF hourly_rate = Undefined THEN 0
        ELSE IF hourly_rate[1] >= 35 THEN 15
        ELSE IF hourly_rate[1] >= 25 THEN 10
        ELSE 5

\* C14: the experience contribution is +15 for an hourly_rate of 35 or
\* more, +10 for a rate from 25 up to 35, +5 for every technician whose rate
\* is set to a value below 25, a rate of 0 included, and nothing for a
\* technician without rate.
C14_ExperienceContribution ==
    IsSuggestCall =>
        \A i \in 1..Len(ret.value) :
            ScoreOfRule(ret.value[i], "experience") = ClaimedExperience(ret.value[i])

----------------------------------------------------------------------------
(* C15 *)

\* the bonus of the first tier a specialty matches, 0 when it matches none
ClaimedTier(specialty, jobText) ==
    LET name  == ToLowerCase(specialty)
        tiers == << [bonus |-> 40, matches |-> Includes(jobText, name)],
                    [bonus |-> 30, matches |-> matchesSpecialtyKeywords(name, jobText)],
                    [bonus |-> 20, matches |-> matchesSpecialtyCategory(name, jobText)] >>
        first == FindIndex(tiers, LAMBDA t : t.matches)
    IN  IF first = 0 THEN 0 ELSE tiers[first].bonus

ClaimedSpecialty(e, workOrder) ==
    LET specialties == IF Opt(e, "specialties") = Undefined THEN <<>>
                       ELSE Opt(e, "specialties")[1]
        text == ToLowerCase(LowerOrEmpty(Opt(workOrder, "customer_concern")) \o " "
                            \o LowerOrEmpty(Opt(workOrder, "description")))
        tier == [i \in 1..Len(specialties) |-> ClaimedTier(specialties[i], text)]
    IN  IF specialties = <<>> THEN 0
        ELSE IF \A i \in 1..Len(specialties) : tier[i] = 0 THEN 0 - 10
        ELSE Sum(tier)

\* C15: every specialty of a technician contributes the bonus of the first
\* tier it matches and of no other: +40 for its name as a substring of the
\* lower-cased job text, else +30 for a keyword of its dictionary entry, else
\* +20 for a word of its category entry; the contributions of the
\* specialties are summed; a technician none of whose specialties matches
\* gets -10, and a technician without specialties gets neither.
C15_SpecialtyContribution ==
    IsSuggestCall =>
        \A i \in 1..Len(ret.value) :
            ScoreOfRule(ret.value[i], "specialties")
                = ClaimedSpecialty(ret.value[i], OrderOfCall)

\* a suggestion in which one technician has a specialty matching by name
\* and by keyword and another specialty matching by keyword only, a second
\* technician has specialties none of which matches, and a third has none
C15_Witness ==
    /\ IsSuggestCall
    /\ \E i, j, k \in 1..Len(ret.value) :
          /\ ScoreOfRule(ret.value[i], "specialties") = 70
          /\ \E n \in 1..Len(ret.value[i].specialties[1]) :
                LET name == ToLowerCase(ret.value[i].specialties[1][n])
                IN  /\ Includes(JobText(OrderOfCall), name)
                    /\ matchesSpecialtyKeywords(name, JobText(OrderOfCall))
          /\ ScoreOfRule(ret.value[j], "specialties") = 0 - 10
          /\ Opt(ret.value[k], "specialties") = Undefined
          /\ ScoreOfRule(ret.value[k], "specialties") = 0

----------------------------------------------------------------------------
(* C16 *)

\* an urgent keyword in the concatenation of customer_concern and
\* description
UrgentInJobText(workOrder) ==
    \E i \in 1..Len(urgentKeywords) : Includes(JobText(workOrder), urgentKeywords[i])

\* C16: a technician of hourly_rate 30 or more gets +15 whenever the job
\* text, the concatenation of customer_concern and description, contains an
\* urgent keyword, also when it occurs in the description only; nobody gets
\* the bonus when the job text holds no urgent keyword.
C16_UrgencyContribution ==
    IsSuggestCall =>
        \A i \in 1..Len(ret.value) :
            LET e == ret.value[i]
            IN  ScoreOfRule(e, "urgency") =
                    IF /\ Opt(e, "hourly_rate") # Undefined
                       /\ Opt(e, "hourly_rate")[1] >= 30
                       /\ UrgentInJobText(OrderOfCall)
                    THEN 15 ELSE 0

----------------------------------------------------------------------------
(* C17 *)

\* the technicians with active = true, in the order of tech_profiles, each
\* with its score for the work order of the call
ScoredActiveTechs ==
    LET active == SelectSeq(Db.tech_profiles, LAMBDA t : t.active)
    IN  [i \in 1..Len(active) |-> ScoreTech(Db, OrderOfCall, active[i])]

\* the place of the i-th of them in the list sorted by descending score,
\* technicians of equal score staying in their order
Rank(scored, i) ==
    1 + Cardinality({ j \in 1..Len(scored) :
                        \/ scored[j].score > scored[i].score
                        \/ scored[j].score = scored[i].score /\ j < i })

\* C17: for a stored work order suggestTechForWorkOrder scores every active
\* technician and returns the first min(5, number of active technicians)
\* of them in descending order of score, technicians of equal score in their
\* tech_profiles order: never more than five, and never without a technician
\* whose score is higher than that of a returned one.
C17_TopFiveOfTheActive ==
    (IsSuggestCall /\ OrdersOfCall(ret, database) # {}) =>
        LET scored == ScoredActiveTechs
            n == IF Len(scored) < 5 THEN Len(scored) ELSE 5
        IN  /\ Len(ret.value) = n
            /\ \A i \in 1..Len(scored) :
                  Rank(scored, i) <= n => ret.value[Rank(scored, i)] = scored[i]

\* a suggestion with more than five active technicians, in which two
\* returned technicians have the same score and the first one returned is
\* not the first of tech_profiles
C17_Witness ==
    /\ IsSuggestCall
    /\ OrdersOfCall(ret, database) # {}
    /\ Len(ScoredActiveTechs) > 5
    /\ Len(ret.value) = 5
    /\ ret.value[1].id # Db.tech_profiles[1].id
    /\ \E k \in 1..4 : ret.value[k].score = ret.value[k + 1].score

----------------------------------------------------------------------------
(* C18 *)

NumberOfCertifications(e) ==
    IF Opt(e, "certifications") = Undefined THEN 0 ELSE Len(Opt(e, "certifications")[1])

\* the technician has one specialty, and its name is in the job text
DirectMatchOnly(e) ==
    /\ Opt(e, "specialties") # Undefined
    /\ Len(e.specialties[1]) = 1
    /\ Includes(JobText(OrderOfCall), ToLowerCase(e.specialties[1][1]))

\* the technician has specialties, and none of them matches in any tier
NoSpecialtyMatch(e) ==
    /\ Opt(e, "specialties") # Undefined
    /\ Len(e.specialties[1]) > 0
    /\ \A i \in 1..Len(e.specialties[1]) :
          ClaimedTier(e.specialties[1][i], JobText(OrderOfCall)) = 0

\* neither the vehicle age nor the urgency of the job adds to the score
NoJobBonus(e) == Contributions(e).vehicle = 0 /\ Contributions(e).urgency = 0

\* C18: the score is the sum of the contributions of the rules, with +5
\* for each certification: a technician with no active job, hourly_rate 40,
\* three certifications and a direct specialty match scores
\* 25 + 15 + 15 + 40 = 95, and a technician with four or more active jobs
\* and no specialty match scores -50 plus the certification and rate
\* bonuses minus 10, which may be negative.
C18_TotalScore ==
    IsSuggestCall =>
        \A i \in 1..Len(ret.value) :
            LET e == ret.value[i]
                c == Contributions(e)
            IN  /\ e.score = c.workload + c.experience + 5 * NumberOfCertifications(e)
                                + c.specialties + c.vehicle + c.urgency
                /\ ( /\ e.workload.activeJobs = 0
                     /\ Opt(e, "hourly_rate") = <<40>>
                     /\ NumberOfCertifications(e) = 3
                     /\ DirectMatchOnly(e)
                     /\ NoJobBonus(e) ) => e.score = 95
                /\ ( /\ e.workload.activeJobs >= 4
                     /\ NoSpecialtyMatch(e)
                     /\ NoJobBonus(e) ) =>
                        e.score = (0 - 50) + 5 * NumberOfCertifications(e)
                                    + c.experience - 10

\* a suggestion that returns a technician of the first example and a
\* technician of the second example whose score is negative
C18_Witness ==
    /\ IsSuggestCall
    /\ \E i, j \in 1..Len(ret.value) :
          /\ ret.value[i].workload.activeJobs = 0
          /\ Opt(ret.value[i], "hourly_rate") = <<40>>
          /\ NumberOfCertifications(ret.value[i]) = 3
          /\ DirectMatchOnly(ret.value[i])
          /\ ret.value[i].score = 95
          /\ ret.value[j].workload.activeJobs >= 4
          /\ NoSpecialtyMatch(ret.value[j])
          /\ ret.value[j].score < 0

----------------------------------------------------------------------------
(* C19 *)

\* a step of updateAppointment: the version of the clock is that of the call
UpdateStep == ret'.op = "updateAppointment" /\ clock' = clock

\* position of the appointment of a given identifier in the data an update
\* step reads, 0 when there is none
StoredAt(id) == FindIndex(Data.appointments, LAMBDA a : a.id = id)

\* the appointment is the old one with the given fields merged in and
\* updated_at refreshed
IsUpdateOf(new, old, updates, now) ==
    /\ DOMAIN new = DOMAIN old \cup DOMAIN updates
    /\ \A f \in DOMAIN updates \ {"updated_at"} : new[f] = updates[f]
    /\ \A f \in DOMAIN old \ (DOMAIN updates \cup {"updated_at"}) : new[f] = old[f]
    /\ new.updated_at = now

\* what C19 says of a step for a stored identifier
UpdateOfStored(i) ==
    LET post == getSchedulingData(storage')
    IN  /\ storage' # NoData
        /\ Len(post.appointments) = Len(Data.appointments)
        /\ IsUpdateOf(post.appointments[i], Data.appointments[i], ret'.args[2], clock)
        /\ \A j \in 1..Len(Data.appointments) :
              j # i => post.appointments[j] = Data.appointments[j]
        /\ post.shop_schedules = Data.shop_schedules
        /\ post.service_durations = Data.service_durations
        /\ ret'.value = << post.appointments[i] >>

\* C19: updateAppointment with an identifier no stored appointment has
\* returns null and leaves the persisted scheduling state unchanged; with
\* the identifier of a stored appointment it merges the given fields into
\* that appointment and refreshes its updated_at, keeps its position, and
\* leaves every other appointment, the schedules and the durations unchanged.
C19_UpdateTouchesOnlyItsAppointment ==
    [][UpdateStep =>
          IF StoredAt(ret'.args[1]) = 0
          THEN ret'.value = Null /\ storage' = storage
          ELSE UpdateOfStored(StoredAt(ret'.args[1]))]_vars

\* C19, amended: as C19, except that a call with an unknown identifier made
\* while localStorage holds no scheduling item saves the default scheduling
\* state there; stored data is left unchanged by such a call.
C19_UnknownUpdateOnlySeeds ==
    [][UpdateStep =>
          IF StoredAt(ret'.args[1]) = 0
          THEN /\ ret'.value = Null
               /\ storage # NoData => storage' = storage
               /\ storage = NoData => storage' = <<defaultData>>
          ELSE UpdateOfStored(StoredAt(ret'.args[1]))]_vars

\* the first of two appointments has been updated, after the second was
\* created, and is still the first
C19_Witness ==
    /\ ret.op = "updateAppointment"
    /\ ret.value # Null
    /\ Len(Data.appointments) >= 2
    /\ Data.appointments[1] = ret.value[1]
    /\ ret.value[1].updated_at > ret.value[1].created_at
    /\ ret.value[1].updated_at > Data.appointments[2].updated_at
    /\ Data.service_durations # getDefaultServiceDurations

----------------------------------------------------------------------------
(* C20 *)

AppointmentIdsOf(st) ==
    { getSchedulingData(st).appointments[i].id :
        i \in 1..Len(getSchedulingData(st).appointments) }

\* no step takes an appointment out of the store, and a created appointment
\* is stored
NeverRemoved ==
    /\ Len(getSchedulingData(storage').appointments) >= Len(Data.appointments)
    /\ AppointmentIdsOf(storage) \subseteq AppointmentIdsOf(storage')
    /\ ret'.op = "createAppointment" => ret'.value.id \in AppointmentIdsOf(storage')

\* a cancelled appointment is never the reported conflict, and an interval
\* is reported as in conflict or booked only when an appointment that is not
\* cancelled overlaps it
CancelledNeverBooks ==
    /\ (IsConflictCall /\ ret.value # Null) =>
          \E a \in ActiveAppointments :
              /\ a.id = ret.value[1].conflicting_appointment_id
              /\ Intersects(ret.args[1], ret.args[2], a)
    /\ IsSlotsCall =>
          \A i \in 1..Len(ret.value) :
              ret.value[i].reason = "booked" =>
                  \E a \in ActiveAppointments :
                      Intersects(ret.value[i].start, ret.value[i].end, a)

----------------------------------------------------------------------------
(* C21 *)

\* C21: every appointment in the store ends after it starts
\* (scheduled_end > scheduled_start), after any sequence of createAppointment
\* and updateAppointment calls with arbitrary arguments.
C21_EndsAfterStart ==
    \A a \in Elements(Data.appointments) : a.scheduled_end > a.scheduled_start

----------------------------------------------------------------------------
(* C22 *)

\* the lunch window of a schedule lies within its opening hours
LunchWithinHours(s) ==
    /\ ~StrLess(s.lunch_start, s.open_time)
    /\ ~StrLess(s.lunch_end, s.lunch_start)
    /\ ~StrLess(s.close_time, s.lunch_end)

\* C22: every stored shop schedule that is not closed opens before it closes
\* (open_time < close_time), and its lunch window, when present, lies
\* within [open_time, close_time], from the seeded defaults onward and after
\* any sequence of updateShopSchedule calls.
C22_SchedulesWellFormed ==
    \A s \in Elements(Data.shop_schedules) :
        ~s.is_closed =>
            /\ StrLess(s.open_time, s.close_time)
            /\ (TruthyStr(s.lunch_start) /\ TruthyStr(s.lunch_end)) => LunchWithinHours(s)

----------------------------------------------------------------------------
(* C29 *)

\* the appointment createAppointment returned is made of the given fields
IsCreatedFrom(appointment, appointmentData) ==
    /\ DOMAIN appointment = DOMAIN appointmentData \cup {"id", "created_at", "updated_at"}
    /\ \A f \in DOMAIN appointmentData : appointment[f] = appointmentData[f]

\* C29: createAppointment performs no conflict or availability check: every
\* call appends exactly one new appointment with a fresh id to the end of the
\* appointment list and returns it, whatever the stored appointments, the
\* lunch window and the opening hours are, and leaves the stored appointments,
\* schedules and durations as they were.
C29_CreateAlwaysAppends ==
    [][ret'.op = "createAppointment" =>
          /\ getSchedulingData(storage').appointments = Append(Data.appointments, ret'.value)
          /\ ret'.value.id \notin AppointmentIdsOf(storage)
          /\ IsCreatedFrom(ret'.value, ret'.args[1])
          /\ getSchedulingData(storage') = [Data EXCEPT !.appointments = Append(@, ret'.value)]]_vars

\* the appointment just created is stored although it overlaps a stored
\* appointment that is not cancelled, overlaps the lunch window and ends
\* after closing time
C29_Witness ==
    /\ ret.op = "createAppointment"
    /\ ret.value.status # "cancelled"
    /\ ret.value \in Elements(Data.appointments)
    /\ \E a \in ActiveAppointments :
          /\ a.id # ret.value.id
          /\ Intersects(ret.value.scheduled_start, ret.value.scheduled_end, a)
    /\ \E s \in SchedulesOfDay(ret.value.scheduled_start) :
          /\ ~s.is_closed
          /\ InLunch(s, [start |-> ret.value.scheduled_start, end |-> ret.value.scheduled_end])
          /\ MinuteOfDay(ret.value.scheduled_end) > Minutes(s.close_time)

----------------------------------------------------------------------------
(* C23 *)

\* the createAppointment calls that have returned, each by the positions of
\* its read and of its write in the log
ReturnedCalls ==
    { c \in [read : 1..Len(log), write : 1..Len(log)] :
        /\ log[c.read].step = "read"
        /\ log[c.write].step = "write"
        /\ log[c.read].id = log[c.write].id }

\* the identifier of the appointment the call returned
CreatedId(c) == log[c.read].id

\* both calls read before either of them wrote
Interleaved(c, d) == c # d /\ c.read < d.write /\ d.read < c.write

\* C23: the store is a read-modify-write of a whole snapshot without
\* locking: when two writers each run createAppointment and both read
\* before either writes, one of the two appointments is missing from the
\* stored state although both calls returned; when no calls interleave,
\* every appointment created is stored.
C23_InterleavedWriteIsLost ==
    /\ \A c, d \in ReturnedCalls :
          Interleaved(c, d) =>
              ~({CreatedId(c), CreatedId(d)} \subseteq AppointmentIdsOf(storage))
    /\ (\A c, d \in ReturnedCalls : ~Interleaved(c, d)) =>
          \A c \in ReturnedCalls : CreatedId(c) \in AppointmentIdsOf(storage)

\* two tabs have each returned from a createAppointment that read before the
\* other wrote, and only the appointment written last is stored
C23_Witness ==
    \E c, d \in ReturnedCalls :
        /\ Interleaved(c, d)
        /\ log[c.read].tab # log[d.read].tab
        /\ c.write < d.write
        /\ CreatedId(c) \notin AppointmentIdsOf(storage)
        /\ CreatedId(d) \in AppointmentIdsOf(storage)
        /\ ret.value.id = CreatedId(d)

----------------------------------------------------------------------------
(* C24 *)

\* the tab returns from getAvailableTimeSlots in this step
SlotsReturn(tab) == tabs[tab].pc = "getAvailableTimeSlots" /\ tabs'[tab].pc = "idle"

\* C24: within one getAvailableTimeSlots invocation the stored appointments
\* are read once, as a single snapshot used for all slots of the call: the
\* slots returned are those of one of the stored states the call has read,
\* also when another writer stores an appointment while the call is in
\* progress.
C24_SlotsOfOneSnapshot ==
    [][\A tab \in Tabs :
          SlotsReturn(tab) =>
              \E data \in Frame(tab).reads :
                  ret'.value = getAvailableTimeSlots(data, ret'.args[1], ret'.args[2], ret'.args[3])]_vars

----------------------------------------------------------------------------
(* C30 *)

\* a createWorkOrderFromCheckIn call returns or throws in this step
ConversionStep == ret'.op = "createWorkOrderFromCheckIn" /\ clock' = clock

\* the stored check-in of an identifier, when there is one
StoredCheckIns(id) == { ci \in Elements(Db.check_ins) : ci.id = id }

\* the work order is pending and carries the customer, the vehicle, the
\* mileage and the concern of the check-in
IsWorkOrderOf(workOrder, checkIn) ==
    /\ workOrder.status = "pending"
    /\ workOrder.customer_id = checkIn.customer_id
    /\ workOrder.vehicle_id = checkIn.vehicle_id
    /\ workOrder.mileage = checkIn.mileage
    /\ workOrder.customer_concern = checkIn.customer_concern

\* C30: after createWorkOrderFromCheckIn(checkInId) returns for an existing
\* check-in, the store contains the returned work order (pending, with the
\* customer, vehicle, mileage and concern of the check-in) and the status of
\* the check-in is work_order_created, so that the work order is among
\* getWorkOrders and the check-in no longer among getPendingCheckIns.
C30_WorkOrderOfCheckInIsStored ==
    [][ConversionStep =>
          \A checkIn \in StoredCheckIns(ret'.args[1]) :
              LET after == getStorageData(database')
              IN  /\ IsWorkOrderOf(ret'.value, checkIn)
                  /\ ret'.value \in Elements(after.work_orders)
                  /\ \A ci \in Elements(after.check_ins) :
                        ci.id = checkIn.id => ci.status = "work_order_created"
                  /\ ret'.value \in Elements(getWorkOrders(after))
                  /\ \A ci \in Elements(getPendingCheckIns(after)) : ci.id # checkIn.id]_vars

----------------------------------------------------------------------------
(* C25 *)

\* the changes of status of the work order state machine
AllowedStatusChange(old, new) ==
    \/ old = new
    \/ <<old, new>> \in { <<"pending", "in_progress">>,
                          <<"in_progress", "awaiting_approval">>,
                          <<"awaiting_approval", "approved">>,
                          <<"in_progress", "completed">>,
                          <<"approved", "completed">> }
    \/ new = "cancelled" /\ old \notin {"completed", "cancelled"}

\* every work order of both data keeps its status or changes it as allowed
StatusesFollow(before, after) ==
    \A old \in Elements(before.work_orders), new \in Elements(after.work_orders) :
        old.id = new.id => AllowedStatusChange(old.status, new.status)

\* C25: every change of the status of a work order follows pending ->
\* in_progress -> {awaiting_approval -> approved} -> completed, or ->
\* cancelled from a status that is not terminal: no step stores, and no
\* handler of the dashboard prepares, another change of status, so the
\* status of a completed or cancelled work order never changes.
C25_StatusStateMachine ==
    [][/\ StatusesFollow(Db, getStorageData(database'))
       /\ \A tab \in Tabs :
             (tabs[tab].pc = "idle" /\ tabs'[tab].pc = "setItem") =>
                 StatusesFollow(Db, tabs'[tab].frame[1].data)]_vars

----------------------------------------------------------------------------
(* C27 *)

\* the handler of the tab is interrupted in this step
Interrupted(tab) == tabs[tab].pc # "idle" /\ ret' # ret /\ ret'.value = Throw("interrupted")

\* C27: a failure in the middle of a state-changing operation never
\* corrupts or loses stored state: after the interrupted operation the
\* stored item is either the complete snapshot stored before the operation
\* or the complete snapshot the operation writes, never an empty store.
C27_OldOrNewSnapshot ==
    [][\A tab \in Tabs :
          Interrupted(tab) =>
              /\ database' # NoData
              /\ database' \in { Frame(tab).old, saveStorageData(Frame(tab).data) }]_vars

----------------------------------------------------------------------------
(* C26 *)

\* the technicians of the data that are active
ActiveTechIds(data) == { t.id : t \in { p \in Elements(data.tech_profiles) : p.active } }

\* deleteTechProfile leaves the work orders as they are, an
\* assignment to a technician who is missing or inactive returns null, and
\* an assigned_tech that a step changes names an active technician
AssignmentsAreToActiveTechs ==
    /\ ret'.op = "deleteTechProfile" =>
          getStorageData(database').work_orders = Db.work_orders
    /\ ret'.op = "assignTechToWorkOrder" =>
          /\ ret'.args[2] \notin ActiveTechIds(Db) => ret'.value = Null
          /\ ret'.value # Null =>
                /\ ret'.value[1].assigned_tech = <<ret'.args[2]>>
                /\ ret'.value[1] \in Elements(getStorageData(database').work_orders)
          /\ \A old \in Elements(Db.work_orders),
                new \in Elements(getStorageData(database').work_orders) :
                (old.id = new.id /\ Opt(new, "assigned_tech") # Opt(old, "assigned_tech")) =>
                    /\ Opt(new, "assigned_tech") # Undefined
                    /\ new.assigned_tech[1] \in ActiveTechIds(Db)

\* C26: deleteTechProfile is a hard removal that does not touch work orders,
\* so that a work order can name a technician who is no longer among the
\* tech profiles; assignTechToWorkOrder never sets assigned_tech to a
\* technician who is missing or inactive at the time of the call, and in
\* that case returns null without changing the store.
C26_AssignLeavesStoreUnchanged ==
    [][/\ AssignmentsAreToActiveTechs
       /\ (ret'.op = "assignTechToWorkOrder" /\ ret'.args[2] \notin ActiveTechIds(Db)) =>
             database' = database]_vars

\* C26, amended: as C26, except that an assignment to a missing or inactive
\* technician made while localStorage holds no database item saves the
\* initial data there; stored data is left unchanged by such a call.
C26_AssignOnlySeeds ==
    [][/\ AssignmentsAreToActiveTechs
       /\ (ret'.op = "assignTechToWorkOrder" /\ ret'.args[2] \notin ActiveTechIds(Db)) =>
             /\ database # NoData => database' = database
             /\ database = NoData => database' = saveStorageData(initialData)]_vars

\* a technician has been deleted and a stored work order still names that
\* technician as its assigned_tech
C26_Witness ==
    /\ ret.op = "deleteTechProfile"
    /\ ret.value = TRUE
    /\ \E wo \in Elements(Db.work_orders) :
          /\ Opt(wo, "assigned_tech") = <<ret.args[1]>>
          /\ \A t \in Elements(Db.tech_profiles) : t.id # ret.args[1]

----------------------------------------------------------------------------
(* C28 *)

\* the appointments the tabs have submitted with a check-in form
SubmittedAppointments ==
    { tabs[tab].pendingAppointment[1] : tab \in { t \in Tabs : tabs[t].pendingAppointment # Null } }

\* C28: the scheduling flow creates the appointment: after a customer has
\* selected an available slot and submitted the check-in form, an appointment
\* for that interval exists in the scheduling store, and a later
\* getAvailableTimeSlots reports that slot as unavailable with the reason
\* booked.
C28_SubmittedSlotIsBooked ==
    \A p \in SubmittedAppointments :
        /\ \E a \in Elements(Data.appointments) :
              /\ a.scheduled_start = p.scheduled_start
              /\ a.scheduled_end = p.scheduled_end
        /\ IsSlotsCall =>
              \A i \in 1..Len(ret.value) :
                  (ret.value[i].start = p.scheduled_start /\ ret.value[i].end = p.scheduled_end) =>
                      (~ret.value[i].available /\ ret.value[i].reason = "booked")

====
